---- MODULE Spec2Model ----
(***************************************************************************)
(* Verification model of jagua-rs, six specifications over one state:      *)
(*  Spec    - the problem state machine: Problem (place_item /             *)
(*            remove_item / create_solution / restore_to_solution /        *)
(*            flush_changes), Solution, and the solution rebuild of        *)
(*            io/parser.rs;                                                *)
(*  SpecHPG - the cells of the hazard proximity grid (hpg_cell.rs);        *)
(*  SpecPOI - the loop of generate_next_pole (fail_fast/poi.rs), for any   *)
(*            polygon;                                                     *)
(*  SpecSurrogate - generate_next_pole and                                 *)
(*            generate_additional_surrogate_poles on lattice polygons;     *)
(*  SpecParse - Parser::parse (io/parser.rs) and the use the grid makes of *)
(*            a parsed item;                                               *)
(*  SpecTransform - the transformation conversions of io/parser.rs.        *)
(*                                                                         *)
(* Geometry is discretised: a bin is a row of unit cells 0..width-1, an    *)
(* item of width w placed with translation x covers the cells x..x+w-1.    *)
(* Vectors indexed from 0 in the source are functions on 0..n-1 here;      *)
(* Vec<Layout> is a sequence, so LayoutIndex::Existing(i) is layouts[i+1]. *)
(***************************************************************************)
EXTENDS Integers, Sequences, FiniteSets, TLC

\* ------------------------------------------------------------------ bounds
MaxSolutions == 2    \* number of create_solution calls explored
MaxJsonItems == 2    \* placed items in the JSON layouts handed to the rebuild

VARIABLES
    ptype,               \* ProblemType variant: "BP" or "SP"
    layouts,             \* Vec<Layout>: layouts with at least one item (BP), the strip (SP)
    missing_item_qtys,   \* Vec<isize>
    bin_qtys,            \* Vec<usize>: remaining stock per bin
    solution_id_counter, \* source of next_solution_id
    solutions,           \* the Solutions handed out so far, in creation order
    result,              \* outcome of the last operation
    json_layouts,        \* &[JsonLayout] handed to build_solution_from_json
    build,               \* position of build_solution_from_json, pc "api" when
                         \* the problem is driven through its interface instead
    composed,            \* Option<Solution>: the solution json_layouts was composed of
    observed,            \* history: the observable problem state at each create_solution
    debug_assertions,    \* build profile: whether debug_assert! is compiled in
    static_hazards,      \* the static hazards the grid cells were built with
    cells,               \* the HPGCells of one row of the hazard proximity grid
    registered,          \* the dynamic hazards registered on the cells
    hpg_result,          \* outcome of the last cell operation
    pole_registered,     \* history: register_hazard_pole has been used
    queue,               \* generate_next_pole: VecDeque<POINode>
    best,                \* generate_next_pole: Option<Circle>, <<>> for None
    poi_pc,              \* position of generate_next_pole
    deepest,             \* history: levels below the root of the deepest node built
    polygon,             \* SimplePolygon: its points
    poi,                 \* shape.poi: Option<Circle>, <<>> until it is generated
    max_poles,           \* argument of generate_additional_surrogate_poles
    coverage_goal,       \* argument of generate_additional_surrogate_poles, in tenths
    all_poles,           \* generate_additional_surrogate_poles: all_poles
    total_pole_area,     \* generate_additional_surrogate_poles: total_pole_area
    sorted_poles,        \* generate_additional_surrogate_poles: sorted_poles
    sur_pc,              \* position of the surrogate generation
    json_instance,       \* &JsonInstance handed to Parser::parse
    instance,            \* outcome of Parser::parse
    item_haz_prox,       \* outcome of the last hazard_proximity for a parsed item
    d_transf,            \* &DTransformation: placed_item.d_transformation()
    pretransf_item,      \* &Transformation: item.pretransform
    pretransf_bin,       \* &Transformation: bin.pretransform
    json_transf,         \* Option<DTransformation>: the transformation of the JSON solution
    transform,           \* Option<Transformation>: the transformation read back from JSON
    svg_state,           \* SvgFiles: the Mutex<Vec<String>> rocket manages
    requests             \* the requests in flight and the position of their handlers

problem_vars == <<ptype, layouts, missing_item_qtys, bin_qtys, solution_id_counter,
                  solutions, result, json_layouts, build, composed, observed>>

hpg_vars == <<debug_assertions, static_hazards, cells, registered, hpg_result,
              pole_registered>>

poi_vars == <<queue, best, poi_pc, deepest>>

sur_vars == <<polygon, poi, max_poles, coverage_goal, all_poles, total_pole_area,
              sorted_poles, sur_pc>>

parse_vars == <<json_instance, instance, item_haz_prox>>

transf_vars == <<d_transf, pretransf_item, pretransf_bin, json_transf, transform>>

gui_vars == <<svg_state, requests>>

vars == <<problem_vars, hpg_vars, poi_vars, sur_vars, parse_vars, transf_vars, gui_vars>>

build_vars == <<json_layouts, build, composed>>

\* ---------------------------------------------------------------- instance
ItemIds == {0, 1}
BinIds == {0, 1}

\* Instance::item_qty(i): the target quantity (demand) of item i; the
\* strip-packing instance demands one copy of item 1, the bin-packing
\* instance lists item 1 with a demand of zero
item_qty(i) == IF i = 0 THEN 2 ELSE IF ptype = "SP" THEN 1 ELSE 0

\* width of the shape of item i, in cells
ItemWidth(i) == i + 1

\* the bins of a bin-packing instance: (Bin, stock) pairs; bin 0 is two cells
\* wide, bin 1 one cell, and the strip is as wide as bin 0
BinWidthOf(b) == 2 - b
StripWidth == BinWidthOf(0)
BinStock(b) == 1

Bin(b) == [id |-> b, width |-> BinWidthOf(b)]
StripBin(width) == [id |-> 0, width |-> width]

\* ------------------------------------------------------------------ helpers
\* Option<T>: <<>> for None, <<v>> for Some(v)
None == <<>>
Some(v) == <<v>>

\* a panic, with its message
Panic(message) == [kind |-> "Panic", message |-> message]

RECURSIVE SumSeq(_)
SumSeq(s) == IF s = <<>> THEN 0 ELSE Head(s) + SumSeq(Tail(s))

\* cells covered by item i translated by x
Cells(i, x) == x .. (x + ItemWidth(i) - 1)
BinCells(bin) == 0 .. (bin.width - 1)

\* PlacedItem / PlacedItemUID: item id and the transformation applied
PlacedItem(i, x) == [item_id |-> i, x |-> x]
PlacedCells(pi) == Cells(pi.item_id, pi.x)

\* LayoutIndex variants
Existing(i) == <<"Existing", i>>
Empty(i) == <<"Empty", i>>

\* Vec::remove(k) on a sequence (k is 1-based here)
SeqRemove(s, k) == [j \in 1 .. (Len(s) - 1) |-> IF j < k THEN s[j] ELSE s[j + 1]]

\* -------------------------------------------------------- collision engine
\* CDE of one layout: the registered dynamic hazards (placed items) and
\* whether deferred work is pending; the static hazard (bin exterior) is
\* given by the bin.
NewCDE == [hazards |-> {}, pending |-> FALSE]

\* (mutant) register that defers the hazard to the next flush
CDE_register_deferred(cde, pi) == [hazards |-> cde.hazards, pending |-> TRUE]

\* CDEngine::register_hazard / deregister_hazard: effective at once, leaving
\* deferred work for the next flush
CDE_register(cde, pi) == [hazards |-> cde.hazards \cup {pi}, pending |-> TRUE]
CDE_deregister(cde, pi) == [hazards |-> cde.hazards \ {pi}, pending |-> TRUE]

\* (mutant) poly_collides that looks at the bin exterior only
CDE_poly_collides_exterior_only(layout, i, x) ==
    ~(Cells(i, x) \subseteq BinCells(layout.bin))

\* poly_collides: the transformed item overlaps the bin exterior or a
\* registered hazard
CDE_poly_collides(layout, i, x) ==
    \/ ~(Cells(i, x) \subseteq BinCells(layout.bin))
    \/ \E h \in layout.cde.hazards : PlacedCells(h) \cap Cells(i, x) # {}

\* ------------------------------------------------------------------ Layout
EmptyLayout(bin) == [bin |-> bin, placed_items |-> {}, cde |-> NewCDE]

\* Layout::place: add a PlacedItem and register it as a hazard in the CDE
Layout_place(l, i, x) ==
    [l EXCEPT !.placed_items = @ \cup {PlacedItem(i, x)},
              !.cde = CDE_register(@, PlacedItem(i, x))]

\* Layout::remove: remove the placed item and deregister its hazard
Layout_remove(l, uid) ==
    [l EXCEPT !.placed_items = @ \ {uid},
              !.cde = CDE_deregister(@, uid)]

\* summed area of a set of placed items
RECURSIVE PlacedArea(_)
PlacedArea(S) ==
    IF S = {} THEN 0
    ELSE LET pi == CHOOSE q \in S : TRUE
         IN  ItemWidth(pi.item_id) + PlacedArea(S \ {pi})

\* Layout::usage: placed-item area / bin area, kept as the pair <<num, den>>
Layout_usage(l) == <<PlacedArea(l.placed_items), l.bin.width>>

\* Layout::snapshot: placed items by value and the bin; the CDE is not copied
Layout_snapshot(l) ==
    [bin |-> l.bin, placed_items |-> l.placed_items, usage |-> Layout_usage(l)]

\* Layout::restore: placed items as in the snapshot, CDE rebuilt
Layout_restore(sl) ==
    [bin |-> sl.bin, placed_items |-> sl.placed_items,
     cde |-> [hazards |-> sl.placed_items, pending |-> FALSE]]

\* ----------------------------------------------------------------- Problem
\* the empty (template) layouts: one per bin of a BP instance, none for SP
empty_layouts ==
    IF ptype = "BP" THEN [b \in BinIds |-> EmptyLayout(Bin(b))] ELSE <<>>

EmptyIndices == IF ptype = "BP" THEN BinIds ELSE {}
ExistingIndices == 0 .. (Len(layouts) - 1)

\* ProblemPrivate::register_included_item
register_included_item(qtys, item_id) == [qtys EXCEPT ![item_id] = @ - 1]

\* (mutant) unregister_included_item that decrements like register_included_item
unregister_included_item_decr(qtys, item_id) == [qtys EXCEPT ![item_id] = @ - 1]

\* ProblemPrivate::unregister_included_item
unregister_included_item(qtys, item_id) == [qtys EXCEPT ![item_id] = @ + 1]

\* (mutant) included_item_qtys that reports the missing quantities
included_item_qtys_missing == missing_item_qtys

\* Problem::included_item_qtys
included_item_qtys == [i \in ItemIds |-> item_qty(i) - missing_item_qtys[i]]

\* (mutant) stock test that lets a stock of zero pass
empty_layout_has_stock_or_none(index) == bin_qtys[empty_layouts[index].bin.id] >= 0

\* Problem::empty_layout_has_stock
empty_layout_has_stock(index) == bin_qtys[empty_layouts[index].bin.id] > 0

\* Problem::get_layout
get_layout(index) ==
    IF index[1] = "Existing" THEN layouts[index[2] + 1] ELSE empty_layouts[index[2]]

\* f64::partial_cmp of two usages <<num, den>> with positive denominators
usage_le(u, v) == u[1] * v[2] <= v[1] * u[2]

\* (mutant) the index of the first layout with the largest usage
min_usage_layout_index_of_fullest ==
    IF layouts = <<>> THEN None
    ELSE Some(CHOOSE i \in ExistingIndices :
                  /\ \A j \in ExistingIndices :
                         usage_le(Layout_usage(layouts[j + 1]), Layout_usage(layouts[i + 1]))
                  /\ \A j \in 0..(i - 1) :
                         ~usage_le(Layout_usage(layouts[i + 1]), Layout_usage(layouts[j + 1])))

\* Problem::min_usage_layout_index: Iterator::min_by over 0..layouts.len(),
\* which returns the first of the smallest elements and None for no element
min_usage_layout_index ==
    IF layouts = <<>> THEN None
    ELSE Some(CHOOSE i \in ExistingIndices :
                  /\ \A j \in ExistingIndices :
                         usage_le(Layout_usage(layouts[i + 1]), Layout_usage(layouts[j + 1]))
                  /\ \A j \in 0..(i - 1) :
                         ~usage_le(Layout_usage(layouts[j + 1]), Layout_usage(layouts[i + 1])))

\* Problem::usage over the layouts ls: total used area / total bin area, as
\* <<num, den>> (<<0, 0>>, the NaN of 0.0 / 0.0, when there is no layout)
usage(ls) ==
    <<SumSeq([k \in DOMAIN ls |->
                 (ls[k].bin.width * Layout_usage(ls[k])[1]) \div Layout_usage(ls[k])[2]]),
      SumSeq([k \in DOMAIN ls |-> ls[k].bin.width])>>

\* ---------------------------------------------------------------- Solution
\* Solution::new (the time stamp is left out)
Solution_new(id, layout_snapshots, u, placed_item_qtys, target_item_qtys, bqtys) ==
    [id |-> id, layout_snapshots |-> layout_snapshots, usage |-> u,
     placed_item_qtys |-> placed_item_qtys, target_item_qtys |-> target_item_qtys,
     bin_qtys |-> bqtys]

\* (mutant) missing quantities with the operands of the subtraction swapped
Solution_missing_item_qtys_swapped(sol) ==
    [i \in ItemIds |-> sol.placed_item_qtys[i] - item_qty(i)]

\* Solution::missing_item_qtys
Solution_missing_item_qtys(sol) ==
    [i \in ItemIds |-> item_qty(i) - sol.placed_item_qtys[i]]

\* ------------------------------------------------------------ operations
Translations == 0 .. (StripWidth - 1)

\* the PlacingOptions a caller can propose in the current state
PlacingOptions ==
    [layout_index : {Existing(i) : i \in ExistingIndices} \cup {Empty(i) : i \in EmptyIndices},
     item_id : ItemIds,
     x : Translations]

Placed(layout_index, uid) == [kind |-> "Placed", layout_index |-> layout_index, uid |-> uid]
Rejected(reason) == [kind |-> "Rejected", reason |-> reason]
Done(op) == [kind |-> op]

\* (mutant) place_item that does not look at the missing quantity
RejectReason_no_quantity_check(opt) ==
    IF opt.layout_index[1] = "Empty" /\ ~empty_layout_has_stock(opt.layout_index[2])
    THEN "NoStock"
    ELSE IF CDE_poly_collides(get_layout(opt.layout_index), opt.item_id, opt.x)
    THEN "Collision"
    ELSE "None"

\* (mutant) place_item that judges the collision before the quantity and
\* reports an exhausted quantity as a collision
RejectReason_quantity_as_collision(opt) ==
    IF opt.layout_index[1] = "Empty" /\ ~empty_layout_has_stock(opt.layout_index[2])
    THEN "NoStock"
    ELSE IF missing_item_qtys[opt.item_id] <= 0
            \/ CDE_poly_collides(get_layout(opt.layout_index), opt.item_id, opt.x)
    THEN "Collision"
    ELSE "None"

\* why place_item refuses the option, "None" when it accepts it
RejectReason(opt) ==
    IF opt.layout_index[1] = "Empty" /\ ~empty_layout_has_stock(opt.layout_index[2])
    THEN "NoStock"
    ELSE IF missing_item_qtys[opt.item_id] <= 0
    THEN "QuantityExhausted"
    ELSE IF CDE_poly_collides(get_layout(opt.layout_index), opt.item_id, opt.x)
    THEN "Collision"
    ELSE "None"

\* the layouts after the option has been applied
LayoutsAfterPlace(opt) ==
    IF opt.layout_index[1] = "Empty"
    THEN Append(layouts, Layout_place(empty_layouts[opt.layout_index[2]], opt.item_id, opt.x))
    ELSE [layouts EXCEPT ![opt.layout_index[2] + 1] = Layout_place(@, opt.item_id, opt.x)]

\* (mutant) placement that opens a layout without taking its bin from stock
BinQtysAfterPlace_keeps_stock(opt) == bin_qtys

\* the remaining stock after the option has been applied
BinQtysAfterPlace(opt) ==
    IF opt.layout_index[1] = "Empty"
    THEN [bin_qtys EXCEPT ![empty_layouts[opt.layout_index[2]].bin.id] = @ - 1]
    ELSE bin_qtys

\* the index of the layout the option ends up in
PlacedLayoutIndex(opt) ==
    IF opt.layout_index[1] = "Empty" THEN Existing(Len(layouts)) ELSE opt.layout_index

\* (mutant) place_item that decrements the missing quantity before it
\* judges the option
PlaceOutcome_missing_first(opt) ==
    LET reason == RejectReason(opt)
    IN  IF reason # "None"
        THEN [layouts |-> layouts,
              bin_qtys |-> bin_qtys,
              missing |-> register_included_item(missing_item_qtys, opt.item_id),
              result |-> Rejected(reason)]
        ELSE [layouts |-> LayoutsAfterPlace(opt),
              bin_qtys |-> BinQtysAfterPlace(opt),
              missing |-> register_included_item(missing_item_qtys, opt.item_id),
              result |-> Placed(PlacedLayoutIndex(opt), PlacedItem(opt.item_id, opt.x))]

\* Problem::place_item: the state it leaves and the result it returns
PlaceOutcome(opt) ==
    LET reason == RejectReason(opt)
    IN  IF reason # "None"
        THEN [layouts |-> layouts,
              bin_qtys |-> bin_qtys,
              missing |-> missing_item_qtys,
              result |-> Rejected(reason)]
        ELSE [layouts |-> LayoutsAfterPlace(opt),
              bin_qtys |-> BinQtysAfterPlace(opt),
              missing |-> register_included_item(missing_item_qtys, opt.item_id),
              result |-> Placed(PlacedLayoutIndex(opt), PlacedItem(opt.item_id, opt.x))]

\* Problem::place_item
place_item(opt) ==
    /\ build.pc = "api"
    /\ opt \in PlacingOptions
    /\ LET out == PlaceOutcome(opt)
       IN  /\ layouts' = out.layouts
           /\ bin_qtys' = out.bin_qtys
           /\ missing_item_qtys' = out.missing
           /\ result' = out.result
    /\ UNCHANGED <<ptype, solution_id_counter, solutions, build_vars, observed>>

\* (mutant) removal that closes an emptied layout in strip packing as well
LayoutsAfterRemove_closes_empty(i, uid) ==
    IF Layout_remove(layouts[i + 1], uid).placed_items = {}
    THEN SeqRemove(layouts, i + 1)
    ELSE [layouts EXCEPT ![i + 1] = Layout_remove(@, uid)]

\* the layouts after uid has been removed from layout i (0-based)
LayoutsAfterRemove(i, uid) ==
    IF ptype = "BP" /\ Layout_remove(layouts[i + 1], uid).placed_items = {}
    THEN SeqRemove(layouts, i + 1)
    ELSE [layouts EXCEPT ![i + 1] = Layout_remove(@, uid)]

\* (mutant) removal that does not give the bin of an emptied layout back
BinQtysAfterRemove_keeps_stock(i, uid) == bin_qtys

\* the remaining stock after uid has been removed from layout i (0-based)
BinQtysAfterRemove(i, uid) ==
    IF ptype = "BP" /\ Layout_remove(layouts[i + 1], uid).placed_items = {}
    THEN [bin_qtys EXCEPT ![layouts[i + 1].bin.id] = @ + 1]
    ELSE bin_qtys

\* Problem::remove_item(LayoutIndex::Existing(i), uid): the state it leaves
RemoveOutcome(i, uid) ==
    [layouts |-> LayoutsAfterRemove(i, uid),
     bin_qtys |-> BinQtysAfterRemove(i, uid),
     missing |-> unregister_included_item(missing_item_qtys, uid.item_id)]

\* Problem::remove_item(LayoutIndex::Existing(i), uid)
remove_item(i, uid) ==
    /\ build.pc = "api"
    /\ i \in ExistingIndices
    /\ uid \in layouts[i + 1].placed_items
    /\ LET out == RemoveOutcome(i, uid)
       IN  /\ layouts' = out.layouts
           /\ bin_qtys' = out.bin_qtys
           /\ missing_item_qtys' = out.missing
    /\ result' = Done("Removed")
    /\ UNCHANGED <<ptype, solution_id_counter, solutions, build_vars, observed>>

\* (mutant) next_solution_id that returns the counter without advancing it
next_solution_id_stale == solution_id_counter

\* ProblemPrivate::next_solution_id: the value returned (the counter after the call)
next_solution_id == solution_id_counter + 1

\* Problem::create_solution: the Solution returned
created_solution ==
    Solution_new(next_solution_id,
                 [k \in DOMAIN layouts |-> Layout_snapshot(layouts[k])],
                 usage(layouts),
                 included_item_qtys,
                 [i \in ItemIds |-> item_qty(i)],
                 bin_qtys)

\* what a caller can observe of a problem with layouts ls and missing
\* quantities qtys: the placed items per layout, the usage and the quantities
ObservableOf(ls, qtys) ==
    [placed |-> [k \in DOMAIN ls |-> [bin |-> ls[k].bin, placed_items |-> ls[k].placed_items]],
     usage |-> usage(ls),
     missing |-> qtys]

Observable == ObservableOf(layouts, missing_item_qtys)

\* Problem::create_solution
create_solution ==
    /\ build.pc = "api"
    /\ Len(solutions) < MaxSolutions
    /\ solution_id_counter' = next_solution_id
    /\ solutions' = Append(solutions, created_solution)
    /\ observed' = Append(observed, Observable)
    /\ result' = Done("Created")
    /\ UNCHANGED <<ptype, layouts, missing_item_qtys, bin_qtys, build_vars>>

\* (mutant) restore_to_solution takes the layout snapshots out of the Solution
solutions_after_restore_taken(k) ==
    [solutions EXCEPT ![k].layout_snapshots = <<>>]

\* restore_to_solution borrows the Solution (solution: &Solution): the
\* solutions held by the caller after the call
solutions_after_restore(k) == solutions

\* the layouts restore_to_solution rebuilds from the snapshots of a Solution
restore_layouts(sol) ==
    [j \in DOMAIN sol.layout_snapshots |-> Layout_restore(sol.layout_snapshots[j])]

\* Problem::restore_to_solution(sol): the state it leaves
RestoreOutcome(sol) ==
    [layouts |-> restore_layouts(sol),
     bin_qtys |-> sol.bin_qtys,
     missing |-> Solution_missing_item_qtys(sol)]

\* Problem::restore_to_solution(&solutions[k])
restore_to_solution(k) ==
    /\ build.pc = "api"
    /\ k \in DOMAIN solutions
    /\ LET out == RestoreOutcome(solutions[k])
       IN  /\ layouts' = out.layouts
           /\ bin_qtys' = out.bin_qtys
           /\ missing_item_qtys' = out.missing
    /\ result' = Done("Restored")
    /\ solutions' = solutions_after_restore(k)
    /\ UNCHANGED <<ptype, solution_id_counter, build_vars, observed>>

\* Layout::flush_changes
Layout_flush_changes(l) == [l EXCEPT !.cde.pending = FALSE]

\* Problem::flush_changes applied to a vector of layouts
flush_layouts(ls) == [k \in DOMAIN ls |-> Layout_flush_changes(ls[k])]

\* Problem::flush_changes
flush_changes ==
    /\ build.pc = "api"
    /\ layouts' = flush_layouts(layouts)
    /\ result' = Done("Flushed")
    /\ UNCHANGED <<ptype, missing_item_qtys, bin_qtys, solution_id_counter, solutions,
                   build_vars, observed>>

\* ---------------------------------------------------------- transformations
\* Transformation is the 3x3 matrix of a rotation followed by a translation,
\* DTransformation its decomposed form. Rotations are whole quarter turns and
\* translations lattice vectors, so the arithmetic is exact.
Matrix(a, b, tx, c, d, ty) == <<<<a, b, tx>>, <<c, d, ty>>, <<0, 0, 1>>>>

\* Transformation::empty: the identity
Transformation_empty == Matrix(1, 0, 0, 0, 1, 0)

\* cosine and sine of a number of quarter turns
cos_quarter(q) == CASE q % 4 = 0 -> 1 [] q % 4 = 2 -> 0 - 1 [] OTHER -> 0
sin_quarter(q) == CASE q % 4 = 1 -> 1 [] q % 4 = 3 -> 0 - 1 [] OTHER -> 0

\* atan2(sin, cos) in quarter turns, in the range (-2, 2]
atan2_quarter(sin, cos) ==
    CASE cos = 1 -> 0 [] sin = 1 -> 1 [] cos = 0 - 1 -> 2 [] OTHER -> 0 - 1

\* the product of two 3x3 matrices
dot_prod(l, r) ==
    [i \in 1..3 |-> [j \in 1..3 |-> l[i][1] * r[1][j] + l[i][2] * r[2][j] + l[i][3] * r[3][j]]]

DTransformation_new(rotation, translation) ==
    [rotation |-> rotation, translation |-> translation]

\* Transformation::from_dt: rotate, then translate
Transformation_from_dt(dt) ==
    Matrix(cos_quarter(dt.rotation), 0 - sin_quarter(dt.rotation), dt.translation[1],
           sin_quarter(dt.rotation), cos_quarter(dt.rotation), dt.translation[2])

\* Transformation::transform: self followed by other
Transformation_transform(self, other) == dot_prod(other, self)

\* Transformation::transform_from_decomposed
Transformation_transform_from_decomposed(self, dt) ==
    Transformation_transform(self, Transformation_from_dt(dt))

\* Transformation::inverse, of a rotation followed by a translation
Transformation_inverse(m) ==
    Matrix(m[1][1], m[2][1], 0 - (m[1][1] * m[1][3] + m[2][1] * m[2][3]),
           m[1][2], m[2][2], 0 - (m[1][2] * m[1][3] + m[2][2] * m[2][3]))

\* Transformation::decompose: the angle of the rotation and the translation
Transformation_decompose(m) ==
    DTransformation_new(atan2_quarter(m[2][1], m[1][1]), <<m[1][3], m[2][3]>>)

\* internal_to_absolute_transform: the item's pretransform, the placement,
\* the bin's pretransform undone
internal_to_absolute_transform(placed_item_transf, item_pretransf, bin_pretransf) ==
    Transformation_transform(
        Transformation_transform_from_decomposed(
            Transformation_transform(Transformation_empty, item_pretransf),
            placed_item_transf),
        Transformation_inverse(bin_pretransf))

\* (mutant) absolute_to_internal_transform applying the item's pretransform
\* instead of undoing it
absolute_to_internal_transform_without_inverse(abs_transf, item_pretransf, bin_pretransf) ==
    Transformation_transform(
        Transformation_transform_from_decomposed(
            Transformation_transform(Transformation_empty, item_pretransf),
            abs_transf),
        bin_pretransf)

\* ------------------------------------------------- solution rebuild (parser)
\* the JSON layouts a caller can hand in: at most MaxJsonItems placed items
\* in all, a layout without items counting as one
JsonItems == [index : ItemIds, x : Translations]
JsonContainers == {<<"Bin", b>> : b \in BinIds} \cup {<<"Strip", StripWidth>>}
SeqsUpTo(S, n) == UNION {[1 .. k -> S] : k \in 0 .. n}
JsonLayoutsUpTo(n) == [container : JsonContainers, placed_items : SeqsUpTo(JsonItems, n)]
JsonCost(jl) == IF jl.placed_items = <<>> THEN 1 ELSE Len(jl.placed_items)

RECURSIVE JsonInputs(_)
JsonInputs(budget) ==
    {<<>>} \cup
    UNION {{<<jl>> \o rest : rest \in JsonInputs(budget - JsonCost(jl))} :
           jl \in IF budget > 0 THEN JsonLayoutsUpTo(budget) ELSE {}}

\* absolute_to_internal_transform: the item's pretransform undone, the
\* absolute transformation, the bin's pretransform
absolute_to_internal_transform(abs_transf, item_pretransf, bin_pretransf) ==
    Transformation_transform(
        Transformation_transform_from_decomposed(
            Transformation_transform(Transformation_empty,
                                     Transformation_inverse(item_pretransf)),
            abs_transf),
        bin_pretransf)

\* Item::pretransform / Bin::pretransform: parse_item and parse_bin give a
\* Rectangle shape Transformation::empty()
item_pretransform(i) == Transformation_empty
bin_pretransform(b) == Transformation_empty

\* the DTransformation of a placement at x: no rotation, translation (x, 0)
Translation(x) == DTransformation_new(0, <<x, 0>>)

BuildAt(pc, li, ii, layout_index) ==
    [pc |-> pc, li |-> li, ii |-> ii, layout_index |-> layout_index]
STRIP_LAYOUT_IDX == Existing(0)

\* the PlacingOption the rebuild makes of a JSON placed item
JsonPlacingOption(json_item, bin_id, layout_index) ==
    [layout_index |-> layout_index,
     item_id |-> json_item.index,
     x |-> Transformation_decompose(
               absolute_to_internal_transform(Translation(json_item.x),
                                              item_pretransform(json_item.index),
                                              bin_pretransform(bin_id))).translation[1]]

\* problem.place_item(&opt); problem.flush_changes();
BuildPlace(opt) ==
    LET out == PlaceOutcome(opt)
    IN  /\ layouts' = flush_layouts(out.layouts)
        /\ bin_qtys' = out.bin_qtys
        /\ missing_item_qtys' = out.missing
        /\ result' = out.result

BuildPanic ==
    /\ build' = BuildAt("panicked", build.li, build.ii, build.layout_index)
    /\ UNCHANGED <<layouts, bin_qtys, missing_item_qtys, result>>

\* build_solution_from_json up to the first loop: the assertion on the
\* number of layouts and the construction of the problem
build_solution_from_json ==
    /\ build.pc = "start"
    /\ IF ptype = "BP"
       THEN /\ build' = BuildAt("layout", 1, 1, STRIP_LAYOUT_IDX)
            /\ UNCHANGED <<layouts, bin_qtys, missing_item_qtys, result>>
       ELSE IF Len(json_layouts) # 1 \/ json_layouts[1].container[1] # "Strip"
       THEN BuildPanic
       ELSE /\ layouts' = <<EmptyLayout(StripBin(json_layouts[1].container[2]))>>
            /\ build' = BuildAt("items", 1, 1, STRIP_LAYOUT_IDX)
            /\ UNCHANGED <<bin_qtys, missing_item_qtys, result>>
    /\ UNCHANGED <<ptype, solution_id_counter, solutions, json_layouts, composed, observed>>

\* index of the template layout matching the bin id of the JSON layout
template_index(bin_id) == CHOOSE t \in EmptyIndices : empty_layouts[t].bin.id = bin_id

\* whether the next step of the rebuild places a JSON item
build_places_item ==
    \/ /\ build.pc = "layout"
       /\ build.li <= Len(json_layouts)
       /\ json_layouts[build.li].container[1] = "Bin"
       /\ json_layouts[build.li].placed_items # <<>>
    \/ /\ build.pc = "items"
       /\ build.ii <= Len(json_layouts[build.li].placed_items)

\* the PlacingOption of that step: the first item of a bin-packing layout
\* goes to the template layout, every other item to build.layout_index
build_placing_option ==
    IF build.pc = "layout"
    THEN JsonPlacingOption(json_layouts[build.li].placed_items[1],
                           json_layouts[build.li].container[2],
                           Empty(template_index(json_layouts[build.li].container[2])))
    ELSE JsonPlacingOption(json_layouts[build.li].placed_items[build.ii],
                           get_layout(build.layout_index).bin.id,
                           build.layout_index)

\* build_bin_packing_solution: one json_layout, up to and including its first item
build_bin_packing_layout ==
    /\ build.pc = "layout"
    /\ IF build.li > Len(json_layouts)
       THEN /\ build' = BuildAt("finish", build.li, build.ii, build.layout_index)
            /\ UNCHANGED <<layouts, bin_qtys, missing_item_qtys, result>>
       ELSE IF ~build_places_item
       THEN BuildPanic
       ELSE /\ BuildPlace(build_placing_option)
            /\ build' = IF PlaceOutcome(build_placing_option).result.kind = "Placed"
                         THEN BuildAt("items", build.li, 2,
                                      PlaceOutcome(build_placing_option).result.layout_index)
                         ELSE BuildAt("panicked", build.li, 1, build.layout_index)
    /\ UNCHANGED <<ptype, solution_id_counter, solutions, json_layouts, composed, observed>>

\* the item loop of build_strip_packing_solution, and of
\* build_bin_packing_solution after the first item: one iteration
build_place_json_item ==
    /\ build.pc = "items"
    /\ IF ~build_places_item
       THEN /\ build' = IF ptype = "BP"
                         THEN BuildAt("layout", build.li + 1, 1, build.layout_index)
                         ELSE BuildAt("finish", build.li, build.ii, build.layout_index)
            /\ UNCHANGED <<layouts, bin_qtys, missing_item_qtys, result>>
       ELSE /\ BuildPlace(build_placing_option)
            /\ build' = BuildAt("items", build.li, build.ii + 1, build.layout_index)
    /\ UNCHANGED <<ptype, solution_id_counter, solutions, json_layouts, composed, observed>>

\* problem.create_solution(&None), the value the rebuild returns
build_create_solution ==
    /\ build.pc = "finish"
    /\ solution_id_counter' = next_solution_id
    /\ solutions' = Append(solutions, created_solution)
    /\ observed' = Append(observed, Observable)
    /\ result' = Done("Created")
    /\ build' = BuildAt("built", build.li, build.ii, build.layout_index)
    /\ UNCHANGED <<ptype, layouts, missing_item_qtys, bin_qtys, json_layouts, composed>>

\* ------------------------------------------------ solution export (parser)
\* the orders in which the placed items of a layout can be iterated
RECURSIVE Orderings(_)
Orderings(S) ==
    IF S = {} THEN {<<>>}
    ELSE UNION {{<<e>> \o rest : rest \in Orderings(S \ {e})} : e \in S}

\* the JsonPlacedItem compose_json_solution makes of a placed item
JsonPlacedItem(placed_item, bin) ==
    [index |-> placed_item.item_id,
     x |-> Transformation_decompose(
               internal_to_absolute_transform(Translation(placed_item.x),
                                              item_pretransform(placed_item.item_id),
                                              bin_pretransform(bin.id))).translation[1]]

\* the JsonContainer of a layout snapshot
JsonContainer(sl) ==
    IF ptype = "BP" THEN <<"Bin", sl.bin.id>> ELSE <<"Strip", sl.bin.width>>

\* (mutant) the JsonLayouts of a layout snapshot without its last placed item
compose_json_layout_dropping_last(sl) ==
    {[container |-> JsonContainer(sl),
      placed_items |-> [k \in 1..(Len(order) - 1) |-> JsonPlacedItem(order[k], sl.bin)]] :
        order \in Orderings(sl.placed_items)}

\* the JsonLayouts compose_json_solution can make of a layout snapshot: one
\* per order of iteration over its placed items
compose_json_layout(sl) ==
    {[container |-> JsonContainer(sl),
      placed_items |-> [k \in DOMAIN order |-> JsonPlacedItem(order[k], sl.bin)]] :
        order \in Orderings(sl.placed_items)}

\* compose_json_solution: the layouts of the JsonSolutions it can return
RECURSIVE compose_json_layouts(_)
compose_json_layouts(layout_snapshots) ==
    IF layout_snapshots = <<>> THEN {<<>>}
    ELSE {<<jl>> \o rest : jl \in compose_json_layout(Head(layout_snapshots)),
                           rest \in compose_json_layouts(Tail(layout_snapshots))}

compose_json_solution(solution) == compose_json_layouts(solution.layout_snapshots)

\* a solution is exported and its JSON handed to build_solution_from_json,
\* which starts from a new problem of the same instance
compose_and_rebuild(k) ==
    /\ build.pc = "api"
    /\ json_layouts' \in compose_json_solution(solutions[k])
    /\ composed' = Some(solutions[k])
    /\ build' = BuildAt("start", 1, 1, STRIP_LAYOUT_IDX)
    /\ layouts' = IF ptype = "BP" THEN <<>> ELSE <<EmptyLayout(StripBin(StripWidth))>>
    /\ missing_item_qtys' = [i \in ItemIds |-> item_qty(i)]
    /\ bin_qtys' = IF ptype = "BP" THEN [b \in BinIds |-> BinStock(b)] ELSE [b \in {0} |-> 0]
    /\ solution_id_counter' = 0
    /\ solutions' = <<>>
    /\ observed' = <<>>
    /\ result' = Done("None")
    /\ UNCHANGED ptype

\* no grid cell is in use while the problem is explored
HPGIdle ==
    /\ debug_assertions = FALSE
    /\ static_hazards = {}
    /\ cells = <<>>
    /\ registered = {}
    /\ hpg_result = Done("None")
    /\ pole_registered = FALSE

\* no pole is being generated
POIIdle ==
    /\ queue = <<>>
    /\ best = <<>>
    /\ poi_pc = "idle"
    /\ deepest = 0

\* no surrogate is being generated
SurrogateIdle ==
    /\ polygon = <<>>
    /\ poi = <<>>
    /\ max_poles = 0
    /\ coverage_goal = 0
    /\ all_poles = <<>>
    /\ total_pole_area = 0
    /\ sorted_poles = <<>>
    /\ sur_pc = "idle"

\* no instance is being parsed
ParseIdle ==
    /\ json_instance = <<>>
    /\ instance = <<>>
    /\ item_haz_prox = <<>>

\* no transformation is being converted
TransformIdle ==
    /\ d_transf = <<>>
    /\ pretransf_item = <<>>
    /\ pretransf_bin = <<>>
    /\ json_transf = <<>>
    /\ transform = <<>>

GuiIdle ==
    /\ svg_state = <<>>
    /\ requests = <<>>

\* ------------------------------------------------------------ specification
\* BPProblem::new / SPProblem::new; the problem is then either driven through
\* its interface or is the one build_solution_from_json fills from JSON
Init ==
    /\ ptype \in {"BP", "SP"}
    /\ layouts = IF ptype = "BP" THEN <<>> ELSE <<EmptyLayout(StripBin(StripWidth))>>
    /\ missing_item_qtys = [i \in ItemIds |-> item_qty(i)]
    /\ bin_qtys = IF ptype = "BP" THEN [b \in BinIds |-> BinStock(b)] ELSE [b \in {0} |-> 0]
    /\ solution_id_counter = 0
    /\ solutions = <<>>
    /\ observed = <<>>
    /\ result = Done("None")
    /\ composed = None
    /\ \/ /\ json_layouts = <<>>
          /\ build = BuildAt("api", 1, 1, STRIP_LAYOUT_IDX)
       \/ /\ json_layouts \in JsonInputs(MaxJsonItems)
          /\ build = BuildAt("start", 1, 1, STRIP_LAYOUT_IDX)
    /\ HPGIdle
    /\ POIIdle
    /\ SurrogateIdle
    /\ ParseIdle
    /\ TransformIdle
    /\ GuiIdle

\* the operations of the problem leave the state of the other
\* specifications alone
PlaceItem ==
    /\ \E opt \in PlacingOptions : place_item(opt)
    /\ UNCHANGED <<hpg_vars, poi_vars, sur_vars, parse_vars, transf_vars, gui_vars>>
RemoveItem ==
    /\ \E i \in ExistingIndices : \E uid \in layouts[i + 1].placed_items : remove_item(i, uid)
    /\ UNCHANGED <<hpg_vars, poi_vars, sur_vars, parse_vars, transf_vars, gui_vars>>
CreateSolution == create_solution /\ UNCHANGED <<hpg_vars, poi_vars, sur_vars, parse_vars, transf_vars, gui_vars>>
RestoreToSolution ==
    /\ \E k \in DOMAIN solutions : restore_to_solution(k)
    /\ UNCHANGED <<hpg_vars, poi_vars, sur_vars, parse_vars, transf_vars, gui_vars>>
FlushChanges == flush_changes /\ UNCHANGED <<hpg_vars, poi_vars, sur_vars, parse_vars, transf_vars, gui_vars>>
BuildSolutionFromJson == build_solution_from_json /\ UNCHANGED <<hpg_vars, poi_vars, sur_vars, parse_vars, transf_vars, gui_vars>>
BuildBinPackingLayout == build_bin_packing_layout /\ UNCHANGED <<hpg_vars, poi_vars, sur_vars, parse_vars, transf_vars, gui_vars>>
BuildPlaceJsonItem == build_place_json_item /\ UNCHANGED <<hpg_vars, poi_vars, sur_vars, parse_vars, transf_vars, gui_vars>>
BuildCreateSolution == build_create_solution /\ UNCHANGED <<hpg_vars, poi_vars, sur_vars, parse_vars, transf_vars, gui_vars>>
ComposeAndRebuild ==
    /\ \E k \in DOMAIN solutions : compose_and_rebuild(k)
    /\ UNCHANGED <<hpg_vars, poi_vars, sur_vars, parse_vars, transf_vars, gui_vars>>

Next ==
    \/ PlaceItem
    \/ RemoveItem
    \/ CreateSolution
    \/ RestoreToSolution
    \/ FlushChanges
    \/ BuildSolutionFromJson
    \/ BuildBinPackingLayout
    \/ BuildPlaceJsonItem
    \/ BuildCreateSolution
    \/ ComposeAndRebuild

Spec == Init /\ [][Next]_vars

\* --------------------------------------------------- hazard proximity grid
\* One row of the grid. Geometry is taken on a line with integer
\* coordinates: a point is an integer, a circle (a pole, the bounding
\* circle of the poles) and a shape are closed intervals <<lo, hi>>.
\* Option<T> is <<>> for None and <<v>> for Some(v).
MaxRegistered == 2   \* dynamic hazards registered on the cells at a time

N_QUALITIES == 10
F64_MAX == 1000000   \* f64::MAX: larger than every distance of the model

HPGRadius == 2       \* bbox.diameter() / 2 of a grid cell
NCells == 3          \* cells in the row
HPGWidth == 2 * HPGRadius * NCells


Abs(x) == IF x < 0 THEN -x ELSE x
Min2(a, b) == IF a <= b THEN a ELSE b
SetMin(S) == CHOOSE x \in S : \A y \in S : x <= y

\* HazardEntity and its queries
BinExterior == [kind |-> "BinExterior", id |-> 0, quality |-> 0]
BinHole(id) == [kind |-> "BinHole", id |-> id, quality |-> 0]
InferiorQualityZone(quality, id) ==
    [kind |-> "InferiorQualityZone", id |-> id, quality |-> quality]
PlacedItemEntity(id) == [kind |-> "PlacedItem", id |-> id, quality |-> 0]

entity_position(entity) == IF entity.kind = "BinExterior" THEN "Exterior" ELSE "Interior"
entity_universal(entity) == entity.kind \in {"BinExterior", "BinHole", "PlacedItem"}

\* Hazard: entity, shape, active flag; the surrogate of the shape is given
\* by its poles, which lie inside the shape
Hazard(entity, shape, poles, active) ==
    [entity |-> entity, shape |-> shape, poles |-> poles, active |-> active]

\* Surrogate::poles_bounding_circle: the smallest circle around all poles
poles_bounding_circle(h) ==
    <<SetMin({h.poles[k][1] : k \in DOMAIN h.poles}),
      -SetMin({-h.poles[k][2] : k \in DOMAIN h.poles})>>

\* DistanceFrom::distance_from_border: where the point lies and how far
\* from the border
distance_from_border(c, p) ==
    <<IF c[1] <= p /\ p <= c[2] THEN "Interior" ELSE "Exterior",
      Min2(Abs(p - c[1]), Abs(p - c[2]))>>

\* the static hazards a grid can be built with, in the order of the slice
BinShape == <<0, HPGWidth>>
StaticConfigs ==
    { <<Hazard(BinExterior, BinShape, <<BinShape>>, TRUE)>>,
      <<Hazard(BinExterior, BinShape, <<BinShape>>, TRUE),
        Hazard(BinHole(0), <<11, 12>>, <<<<11, 12>>>>, TRUE),
        Hazard(InferiorQualityZone(5, 0), <<7, 9>>, <<<<7, 9>>>>, TRUE),
        Hazard(InferiorQualityZone(2, 1), <<0, 1>>, <<<<0, 1>>>>, TRUE),
        Hazard(InferiorQualityZone(2, 2), <<4, 5>>, <<<<4, 5>>>>, TRUE)>> }

\* the dynamic hazards a caller can hand to the cells: placed items with one
\* or two poles, an inactive one, and the two unsupported kinds (an
\* inferior-quality zone and an exterior-forbidden hazard)
Hazards ==
    { Hazard(PlacedItemEntity(1), <<1, 2>>, <<<<1, 2>>>>, TRUE),
      Hazard(PlacedItemEntity(2), <<8, 9>>, <<<<8, 9>>>>, TRUE),
      Hazard(PlacedItemEntity(3), <<1, 6>>, <<<<1, 2>>, <<5, 6>>>>, TRUE),
      Hazard(PlacedItemEntity(4), <<0, 4>>, <<<<1, 3>>>>, TRUE),
      Hazard(PlacedItemEntity(5), <<5, 6>>, <<<<5, 6>>>>, TRUE),
      Hazard(PlacedItemEntity(6), <<10, 12>>, <<<<11, 12>>>>, TRUE),
      Hazard(PlacedItemEntity(7), <<6, 7>>, <<<<6, 7>>>>, FALSE),
      Hazard(InferiorQualityZone(3, 8), <<2, 3>>, <<<<2, 3>>>>, TRUE),
      Hazard(BinExterior, BinShape, <<BinShape>>, TRUE) }

\* the sets of hazards one bulk registration can be handed
HazardSets == {H \in SUBSET Hazards : H # {} /\ Cardinality(H) <= MaxRegistered}

\* a set of hazards as the slice handed to the cell, ordered by entity id
RECURSIVE HazardSeq(_)
HazardSeq(H) ==
    IF H = {} THEN <<>>
    ELSE LET h == CHOOSE x \in H : \A y \in H : x.entity.id <= y.entity.id
         IN  <<h>> \o HazardSeq(H \ {h})

\* (mutant) the loop of HPGCell::new keeping the proximity of the last zone
\* of a quality instead of the smallest
RECURSIVE HPGCell_new_fold_last_zone(_, _, _)
HPGCell_new_fold_last_zone(pos, hazards, acc) ==
    IF hazards = <<>> THEN acc
    ELSE LET hazard == Head(hazards)
             d == distance_from_border(hazard.shape, pos)
             prox == IF d[1] = entity_position(hazard.entity) THEN 0 ELSE d[2]
             q == hazard.entity.quality
             next ==
                 IF hazard.entity.kind \in {"BinExterior", "BinHole"}
                 THEN IF prox < acc.static_uni_prox[1]
                      THEN [acc EXCEPT !.static_uni_prox = <<prox, hazard.entity>>]
                      ELSE acc
                 ELSE [acc EXCEPT !.qz_prox[q] = prox]
         IN  IF hazard.entity.kind = "PlacedItem"
             THEN Panic("Unexpected hazard entity type")
             ELSE HPGCell_new_fold_last_zone(pos, Tail(hazards), next)

\* HPGCell::new: the loop over the static hazards (bin exterior, holes and
\* quality zones; a placed item among them panics)
RECURSIVE HPGCell_new_fold(_, _, _)
HPGCell_new_fold(pos, hazards, acc) ==
    IF hazards = <<>> THEN acc
    ELSE LET hazard == Head(hazards)
             d == distance_from_border(hazard.shape, pos)
             prox == IF d[1] = entity_position(hazard.entity) THEN 0 ELSE d[2]
             q == hazard.entity.quality
             next ==
                 IF hazard.entity.kind \in {"BinExterior", "BinHole"}
                 THEN IF prox < acc.static_uni_prox[1]
                      THEN [acc EXCEPT !.static_uni_prox = <<prox, hazard.entity>>]
                      ELSE acc
                 ELSE [acc EXCEPT !.qz_prox[q] = Min2(@, prox)]
         IN  IF hazard.entity.kind = "PlacedItem"
             THEN Panic("Unexpected hazard entity type")
             ELSE HPGCell_new_fold(pos, Tail(hazards), next)

\* HPGCell::new: the cell, or the panic of the loop
HPGCell_new(bbox, hazards) ==
    LET centroid == (bbox[1] + bbox[2]) \div 2
        radius == (bbox[2] - bbox[1]) \div 2
        acc == HPGCell_new_fold(centroid, hazards,
                   [static_uni_prox |-> <<F64_MAX, BinExterior>>,
                    qz_prox |-> [q \in 0..(N_QUALITIES - 1) |-> F64_MAX]])
    IN  IF acc = Panic("Unexpected hazard entity type") THEN acc
        ELSE [bbox |-> bbox, centroid |-> centroid, radius |-> radius,
              uni_prox |-> acc.static_uni_prox,
              static_uni_prox |-> acc.static_uni_prox,
              qz_prox |-> acc.qz_prox]

\* distance_to_surrogate_poles_border
distance_to_surrogate_poles_border(hp_cell, poles) ==
    SetMin({ LET d == distance_from_border(poles[k], hp_cell.centroid)
             IN  IF d[1] = "Interior" THEN 0 ELSE Abs(d[2]) : k \in DOMAIN poles })

\* a cell operation that panicked before it changed the cell
Panicked(cell) == [cell |-> cell, update |-> "Panic"]

\* (mutant) register_hazard that takes over a hazard farther away
register_hazard_taking_farther(cell, to_register) ==
    IF debug_assertions /\ ~entity_universal(to_register.entity)
    THEN Panicked(cell)
    ELSE IF entity_position(to_register.entity) = "Exterior"
    THEN Panicked(cell)
    ELSE LET current_prox == cell.uni_prox[1]
             haz_prox == distance_to_surrogate_poles_border(cell, to_register.poles)
         IN  IF haz_prox > current_prox
             THEN [cell |-> [cell EXCEPT !.uni_prox = <<haz_prox, to_register.entity>>],
                   update |-> "Affected"]
             ELSE [cell |-> cell, update |-> "NotAffected"]

\* (mutant) register_hazard that records the new hazard as the static one too
register_hazard_writing_static(cell, to_register) ==
    IF debug_assertions /\ ~entity_universal(to_register.entity)
    THEN Panicked(cell)
    ELSE IF entity_position(to_register.entity) = "Exterior"
    THEN Panicked(cell)
    ELSE LET current_prox == cell.uni_prox[1]
             haz_prox == distance_to_surrogate_poles_border(cell, to_register.poles)
         IN  IF haz_prox < current_prox
             THEN [cell |-> [cell EXCEPT !.uni_prox = <<haz_prox, to_register.entity>>,
                                         !.static_uni_prox = <<haz_prox, to_register.entity>>],
                   update |-> "Affected"]
             ELSE IF haz_prox > current_prox + 2 * cell.radius
             THEN [cell |-> cell, update |-> "NeighborsNotAffected"]
             ELSE [cell |-> cell, update |-> "NotAffected"]

\* (mutant) register_hazard that lets a hazard at the same distance take over
register_hazard_replacing_ties(cell, to_register) ==
    IF debug_assertions /\ ~entity_universal(to_register.entity)
    THEN Panicked(cell)
    ELSE IF entity_position(to_register.entity) = "Exterior"
    THEN Panicked(cell)
    ELSE LET current_prox == cell.uni_prox[1]
             haz_prox == distance_to_surrogate_poles_border(cell, to_register.poles)
         IN  IF haz_prox <= current_prox
             THEN [cell |-> [cell EXCEPT !.uni_prox = <<haz_prox, to_register.entity>>],
                   update |-> "Affected"]
             ELSE IF haz_prox > current_prox + 2 * cell.radius
             THEN [cell |-> cell, update |-> "NeighborsNotAffected"]
             ELSE [cell |-> cell, update |-> "NotAffected"]

\* HPGCell::register_hazard: the cell it leaves and the update it returns
register_hazard(cell, to_register) ==
    IF debug_assertions /\ ~entity_universal(to_register.entity)
    THEN Panicked(cell)
    ELSE IF entity_position(to_register.entity) = "Exterior"
    THEN Panicked(cell)
    ELSE LET current_prox == cell.uni_prox[1]
             haz_prox == distance_to_surrogate_poles_border(cell, to_register.poles)
         IN  IF haz_prox < current_prox
             THEN [cell |-> [cell EXCEPT !.uni_prox = <<haz_prox, to_register.entity>>],
                   update |-> "Affected"]
             ELSE IF haz_prox > current_prox + 2 * cell.radius
             THEN [cell |-> cell, update |-> "NeighborsNotAffected"]
             ELSE [cell |-> cell, update |-> "NotAffected"]

\* (mutant) register_hazard_pole with the bound of register_hazard
register_hazard_pole_loose_bound(cell, to_register, pole) ==
    IF debug_assertions /\ ~entity_universal(to_register.entity)
    THEN Panicked(cell)
    ELSE IF entity_position(to_register.entity) = "Exterior"
    THEN Panicked(cell)
    ELSE LET current_prox == cell.uni_prox[1]
             d == distance_from_border(pole, cell.centroid)
             new_prox == IF d[1] = "Interior" THEN 0 ELSE Abs(d[2])
         IN  IF new_prox < current_prox
             THEN [cell |-> [cell EXCEPT !.uni_prox = <<new_prox, to_register.entity>>],
                   update |-> "Affected"]
             ELSE IF new_prox > current_prox + 2 * cell.radius
             THEN [cell |-> cell, update |-> "NeighborsNotAffected"]
             ELSE [cell |-> cell, update |-> "NotAffected"]

\* HPGCell::register_hazard_pole
register_hazard_pole(cell, to_register, pole) ==
    IF debug_assertions /\ ~entity_universal(to_register.entity)
    THEN Panicked(cell)
    ELSE IF entity_position(to_register.entity) = "Exterior"
    THEN Panicked(cell)
    ELSE LET current_prox == cell.uni_prox[1]
             d == distance_from_border(pole, cell.centroid)
             new_prox == IF d[1] = "Interior" THEN 0 ELSE Abs(d[2])
         IN  IF new_prox < current_prox
             THEN [cell |-> [cell EXCEPT !.uni_prox = <<new_prox, to_register.entity>>],
                   update |-> "Affected"]
             ELSE IF new_prox - 2 * cell.radius > current_prox + 2 * cell.radius
             THEN [cell |-> cell, update |-> "NeighborsNotAffected"]
             ELSE [cell |-> cell, update |-> "NotAffected"]

\* the lower bound register_hazards computes for a hazard: None for an
\* exterior hazard, else the distance to the bounding circle of its poles
bounding_proximity(cell, haz) ==
    IF entity_position(haz.entity) = "Exterior" THEN None
    ELSE LET d == distance_from_border(poles_bounding_circle(haz), cell.centroid)
         IN  IF d[1] = "Interior" THEN Some(0) ELSE Some(Abs(d[2]))

\* the order of Option<NotNan>: None is smaller than every Some
OptionLess(a, b) ==
    IF a = None THEN b # None ELSE b # None /\ a[1] < b[1]

\* (mutant) the hazards taken in the order of the slice, not by lower bound
min_by_key_index_unsorted(vec) == 1

\* Iterator::min_by_key: the index of the first minimal element
min_by_key_index(vec) ==
    CHOOSE i \in DOMAIN vec :
        /\ \A j \in DOMAIN vec : ~OptionLess(vec[j][2], vec[i][2])
        /\ \A j \in 1..(i - 1) : OptionLess(vec[i][2], vec[j][2])

\* Vec::swap_remove: the last element takes the place of the removed one
swap_remove(vec, i) ==
    IF i = Len(vec) THEN SubSeq(vec, 1, Len(vec) - 1)
    ELSE [SubSeq(vec, 1, Len(vec) - 1) EXCEPT ![i] = vec[Len(vec)]]

\* the loop of register_hazards over the hazards not yet handled
RECURSIVE register_hazards_loop(_, _)
register_hazards_loop(cell, bounding_pole_distances) ==
    IF bounding_pole_distances = <<>> THEN [cell |-> cell, update |-> "Done"]
    ELSE LET index == min_by_key_index(bounding_pole_distances)
             to_register == bounding_pole_distances[index][1]
             bounding_prox == bounding_pole_distances[index][2]
             current_proximity == cell.uni_prox[1]
             out == register_hazard(cell, to_register)
         IN  IF bounding_prox = None \/ bounding_prox[1] <= current_proximity
             THEN IF out.update = "Panic" THEN out
                  ELSE register_hazards_loop(out.cell,
                           swap_remove(bounding_pole_distances, index))
             ELSE [cell |-> cell, update |-> "Done"]

\* Iterator::filter over a slice
RECURSIVE FilterActive(_)
FilterActive(hazards) ==
    IF hazards = <<>> THEN <<>>
    ELSE IF Head(hazards).active
         THEN <<Head(hazards)>> \o FilterActive(Tail(hazards))
         ELSE FilterActive(Tail(hazards))

\* HPGCell::register_hazards
register_hazards(cell, to_register) ==
    LET active == FilterActive(to_register)
    IN  register_hazards_loop(cell,
            [k \in DOMAIN active |-> <<active[k], bounding_proximity(cell, active[k])>>])

\* (mutant) deregister_hazards that does not look at the uni_prox entity
deregister_hazards_always(cell, to_deregister, remaining) ==
    [cell |-> register_hazards([cell EXCEPT !.uni_prox = cell.static_uni_prox],
                               remaining).cell,
     update |-> "Affected"]

\* (mutant) deregister_hazards that only resets the cell
deregister_hazards_reset_only(cell, to_deregister, remaining) ==
    IF cell.uni_prox[2] \in to_deregister
    THEN [cell |-> [cell EXCEPT !.uni_prox = cell.static_uni_prox], update |-> "Affected"]
    ELSE [cell |-> cell, update |-> "NotAffected"]

\* HPGCell::deregister_hazards
deregister_hazards(cell, to_deregister, remaining) ==
    IF cell.uni_prox[2] \in to_deregister
    THEN LET out == register_hazards([cell EXCEPT !.uni_prox = cell.static_uni_prox],
                                     remaining)
         IN  IF out.update = "Panic" THEN out
             ELSE [cell |-> out.cell, update |-> "Affected"]
    ELSE [cell |-> cell, update |-> "NotAffected"]

\* (mutant) hazard_proximity that also counts the zone of the item's own quality
hazard_proximity_inclusive(cell, quality_level) ==
    LET relevant_qualities ==
            IF quality_level = None THEN 0..(N_QUALITIES - 1)
            ELSE 0..Min2(quality_level[1], N_QUALITIES - 1)
    IN  SetMin({cell.uni_prox[1]} \cup {cell.qz_prox[q] : q \in relevant_qualities})

\* the qualities hazard_proximity looks up in qz_prox
relevant_qualities(quality_level) ==
    IF quality_level = None THEN 0..(N_QUALITIES - 1)
    ELSE 0..(quality_level[1] - 1)

\* HPGCell::hazard_proximity
hazard_proximity(cell, quality_level) ==
    SetMin({cell.uni_prox[1]} \cup
           {cell.qz_prox[q] : q \in relevant_qualities(quality_level)})

\* (mutant) could_accommodate_item that forgets the radius of the cell
could_accommodate_item_centroid_only(cell, item) ==
    item.poi_radius < hazard_proximity(cell, item.base_quality)

\* HPGCell::could_accommodate_item
could_accommodate_item(cell, item) ==
    LET poi_d == item.poi_radius
    IN  IF cell.radius > poi_d THEN TRUE
        ELSE poi_d < hazard_proximity(cell, item.base_quality) + cell.radius

\* ---------------------------------------------------- grid cell operations
CellIds == 1..NCells

\* the bounding box of cell c of the row
CellBBox(c) == <<2 * HPGRadius * (c - 1), 2 * HPGRadius * c>>

\* the result of the last operation: its name and the update of each cell
HPGResult(op, updates) == [op |-> op, updates |-> updates]

\* the dynamic hazards the grid is handed by the collision engine: active,
\* universal and interior-forbidden (placed items)
Supported(h) ==
    /\ h.active
    /\ entity_universal(h.entity)
    /\ entity_position(h.entity) = "Interior"

\* the grid applies an operation to every cell of the row
ApplyToCells(op, outs) ==
    /\ cells' = [c \in CellIds |-> outs[c].cell]
    /\ hpg_result' = HPGResult(op, [c \in CellIds |-> outs[c].update])

RegisterHazardOn(h) ==
    /\ h \in Hazards \ registered
    /\ Supported(h)
    /\ Cardinality(registered) < MaxRegistered
    /\ ApplyToCells("register_hazard", [c \in CellIds |-> register_hazard(cells[c], h)])
    /\ registered' = registered \cup {h}
    /\ UNCHANGED <<debug_assertions, static_hazards, pole_registered>>

RegisterHazardPoleOn(h, k) ==
    /\ h \in Hazards \ registered
    /\ Supported(h)
    /\ k \in DOMAIN h.poles
    /\ Cardinality(registered) < MaxRegistered
    /\ ApplyToCells("register_hazard_pole",
                    [c \in CellIds |-> register_hazard_pole(cells[c], h, h.poles[k])])
    /\ registered' = registered \cup {h}
    /\ pole_registered' = TRUE
    /\ UNCHANGED <<debug_assertions, static_hazards>>

\* the slice may hold inactive hazards, which register_hazards filters out
RegisterHazardsOn(H) ==
    /\ H \subseteq Hazards \ registered
    /\ H # {}
    /\ \A h \in H : ~h.active \/ Supported(h)
    /\ Cardinality(registered \cup H) <= MaxRegistered
    /\ ApplyToCells("register_hazards",
                    [c \in CellIds |-> register_hazards(cells[c], HazardSeq(H))])
    /\ registered' = registered \cup {h \in H : h.active}
    /\ UNCHANGED <<debug_assertions, static_hazards, pole_registered>>

\* remaining holds exactly the hazards that stay registered
DeregisterHazardsOn(D) ==
    /\ D \subseteq registered
    /\ D # {}
    /\ ApplyToCells("deregister_hazards",
                    [c \in CellIds |->
                        deregister_hazards(cells[c], {h.entity : h \in D},
                                           HazardSeq(registered \ D))])
    /\ registered' = registered \ D
    /\ UNCHANGED <<debug_assertions, static_hazards, pole_registered>>

\* no problem is in use while the grid cells are explored
ProblemIdle ==
    /\ ptype = "BP"
    /\ layouts = <<>>
    /\ missing_item_qtys = <<>>
    /\ bin_qtys = <<>>
    /\ solution_id_counter = 0
    /\ solutions = <<>>
    /\ result = Done("None")
    /\ json_layouts = <<>>
    /\ build = BuildAt("api", 1, 1, STRIP_LAYOUT_IDX)
    /\ composed = <<>>
    /\ observed = <<>>

\* the cells of a fresh grid, built in either profile over one of the
\* static configurations
InitHPG ==
    /\ ProblemIdle
    /\ debug_assertions \in BOOLEAN
    /\ static_hazards \in StaticConfigs
    /\ cells = [c \in CellIds |-> HPGCell_new(CellBBox(c), static_hazards)]
    /\ registered = {}
    /\ hpg_result = HPGResult("new", [c \in CellIds |-> "NotAffected"])
    /\ pole_registered = FALSE
    /\ POIIdle
    /\ SurrogateIdle
    /\ ParseIdle
    /\ TransformIdle
    /\ GuiIdle

RegisterHazard ==
    /\ \E h \in Hazards : RegisterHazardOn(h)
    /\ UNCHANGED <<problem_vars, poi_vars, sur_vars, parse_vars, transf_vars, gui_vars>>
RegisterHazardPole ==
    /\ \E h \in Hazards : \E k \in DOMAIN h.poles : RegisterHazardPoleOn(h, k)
    /\ UNCHANGED <<problem_vars, poi_vars, sur_vars, parse_vars, transf_vars, gui_vars>>
RegisterHazards ==
    /\ \E H \in HazardSets : RegisterHazardsOn(H)
    /\ UNCHANGED <<problem_vars, poi_vars, sur_vars, parse_vars, transf_vars, gui_vars>>
DeregisterHazards ==
    /\ \E D \in SUBSET registered : DeregisterHazardsOn(D)
    /\ UNCHANGED <<problem_vars, poi_vars, sur_vars, parse_vars, transf_vars, gui_vars>>

NextHPG ==
    \/ RegisterHazard
    \/ RegisterHazardPole
    \/ RegisterHazards
    \/ DeregisterHazards

SpecHPG == InitHPG /\ [][NextHPG]_vars

\* ------------------------------------------------- pole of inaccessibility
\* generate_next_pole. The polygon and the existing poles decide the
\* distance of every node; they enter the model as the outcomes of the two
\* comparisons of the loop, which range over both values for every node.
MAX_POI_TREE_DEPTH == 10
MaxQueue == 8        \* nodes in the queue at a time

\* POINode::new: the level of the node (bbox and distances follow from the
\* polygon)
POINode_new(level) == [level |-> level]

\* AARectangle::quadrants: the four quadrants of the bbox
Quadrants == 1..4

\* (mutant) split that hands the children the level of their parent
POINode_split_same_level(node) ==
    IF node.level = 0 THEN None
    ELSE Some([qd \in Quadrants |-> POINode_new(node.level)])

\* POINode::split
POINode_split(node) ==
    IF node.level = 0 THEN None
    ELSE Some([qd \in Quadrants |-> POINode_new(node.level - 1)])

\* one iteration of the loop of generate_next_pole on the node at the
\* front of the queue: better is node.distance > distance(&best), worth is
\* node.distance_upperbound() > distance(&best) after best was updated
generate_next_pole_step(better, worth) ==
    /\ poi_pc = "loop"
    /\ queue # <<>>
    /\ LET node == Head(queue)
           children == POINode_split(node)
       IN  /\ worth /\ children # None => Len(queue) - 1 + Len(children[1]) <= MaxQueue
           /\ best' = IF better THEN Some("Circle") ELSE best
           /\ queue' = IF worth /\ children # None
                        THEN Tail(queue) \o children[1]
                        ELSE Tail(queue)
           /\ deepest' = IF worth /\ children # None
                          THEN -Min2(-deepest, children[1][1].level - MAX_POI_TREE_DEPTH)
                          ELSE deepest
    /\ UNCHANGED poi_pc

\* the queue is empty: best.expect("no pole present")
generate_next_pole_return ==
    /\ poi_pc = "loop"
    /\ queue = <<>>
    /\ poi_pc' = IF best = None THEN "panicked" ELSE "returned"
    /\ UNCHANGED <<queue, best, deepest>>

\* generate_next_pole up to the loop: the root node is in the queue
InitPOI ==
    /\ ProblemIdle
    /\ HPGIdle
    /\ SurrogateIdle
    /\ ParseIdle
    /\ TransformIdle
    /\ GuiIdle
    /\ queue = <<POINode_new(MAX_POI_TREE_DEPTH)>>
    /\ best = None
    /\ poi_pc = "loop"
    /\ deepest = 0

PopNode ==
    /\ \E better, worth \in BOOLEAN : generate_next_pole_step(better, worth)
    /\ UNCHANGED <<problem_vars, hpg_vars, sur_vars, parse_vars, transf_vars, gui_vars>>
ReturnPole ==
    /\ generate_next_pole_return
    /\ UNCHANGED <<problem_vars, hpg_vars, sur_vars, parse_vars, transf_vars, gui_vars>>

NextPOI ==
    \/ PopNode
    \/ ReturnPole

\* the loop is sequential code: it keeps running until it returns
SpecPOI == InitPOI /\ [][NextPOI]_vars /\ WF_vars(NextPOI)

\* --------------------------------------------------------- surrogate poles
\* generate_next_pole and generate_additional_surrogate_poles on polygons
\* whose points lie on the integer lattice and whose edges are parallel to
\* the axes. Distances are taken in the maximum norm, in which the distance
\* of a lattice point to such an edge and to another lattice point is an
\* integer; a Circle is the ball of that norm, an axis-parallel square.
MaxPoles == 3        \* largest max_poles handed to generate_additional_surrogate_poles

\* side of the square bbox of the polygons: the centroid of every node of
\* the search tree, down to level 0, is a lattice point
Side == 2 ^ (MAX_POI_TREE_DEPTH + 1)

Max2(a, b) == IF a >= b THEN a ELSE b
Point(x, y) == [x |-> x, y |-> y]
Circle_new(center, radius) == [center |-> center, radius |-> radius]

\* Circle::area, of the ball of the maximum norm
Circle_area(c) == (2 * c.radius) * (2 * c.radius)

\* distance of two points
Point_distance(p, q) == Max2(Abs(p.x - q.x), Abs(p.y - q.y))

\* CollidesWith<Point> for Circle
Circle_collides_with(c, p) == Point_distance(c.center, p) <= c.radius

\* DistanceFrom<Point> for Circle: distance_from_border
Circle_distance_from_border(c, p) ==
    <<IF Circle_collides_with(c, p) THEN "Interior" ELSE "Exterior",
      Abs(Point_distance(c.center, p) - c.radius)>>

\* AARectangle and its queries
AARectangle_new(x_min, y_min, x_max, y_max) ==
    [x_min |-> x_min, y_min |-> y_min, x_max |-> x_max, y_max |-> y_max]
AARectangle_centroid(r) == Point((r.x_min + r.x_max) \div 2, (r.y_min + r.y_max) \div 2)
AARectangle_diameter(r) == Max2(r.x_max - r.x_min, r.y_max - r.y_min)
AARectangle_quadrants(r) ==
    LET c == AARectangle_centroid(r)
    IN  <<AARectangle_new(c.x, c.y, r.x_max, r.y_max),
          AARectangle_new(r.x_min, c.y, c.x, r.y_max),
          AARectangle_new(r.x_min, r.y_min, c.x, c.y),
          AARectangle_new(c.x, r.y_min, r.x_max, c.y)>>
AARectangle_inflate_to_square(r) ==
    LET width == r.x_max - r.x_min
        height == r.y_max - r.y_min
        dx == IF width < height THEN (height - width) \div 2 ELSE 0
        dy == IF height < width THEN (width - height) \div 2 ELSE 0
    IN  AARectangle_new(r.x_min - dx, r.y_min - dy, r.x_max + dx, r.y_max + dy)

\* SimplePolygon: the sequence of its points, and its queries
edge_iter(poly) == {<<poly[i], poly[(i % Len(poly)) + 1]>> : i \in DOMAIN poly}
SimplePolygon_bbox(poly) ==
    AARectangle_new(SetMin({poly[i].x : i \in DOMAIN poly}),
                    SetMin({poly[i].y : i \in DOMAIN poly}),
                    -SetMin({-poly[i].x : i \in DOMAIN poly}),
                    -SetMin({-poly[i].y : i \in DOMAIN poly}))

\* SimplePolygon::area: the shoelace sum, its absolute value
RECURSIVE Shoelace(_, _)
Shoelace(poly, i) ==
    IF i > Len(poly) THEN 0
    ELSE LET p == poly[i]
             q == poly[(i % Len(poly)) + 1]
         IN  (p.x * q.y - q.x * p.y) + Shoelace(poly, i + 1)
SimplePolygon_area(poly) == Abs(Shoelace(poly, 1)) \div 2

\* CollidesWith<Point> for SimplePolygon: the ray from the point to the
\* left crosses an odd number of edges
SimplePolygon_collides_with(poly, p) ==
    Cardinality({e \in edge_iter(poly) :
                    /\ e[1].x = e[2].x
                    /\ e[1].x < p.x
                    /\ Min2(e[1].y, e[2].y) <= p.y
                    /\ p.y < Max2(e[1].y, e[2].y)}) % 2 = 1

\* Edge::distance to a point
IntervalDistance(v, a, b) ==
    IF v < Min2(a, b) THEN Min2(a, b) - v
    ELSE IF v > Max2(a, b) THEN v - Max2(a, b)
    ELSE 0
Edge_distance(e, p) ==
    Max2(IntervalDistance(p.x, e[1].x, e[2].x), IntervalDistance(p.y, e[1].y, e[2].y))

\* the polygons: a square, two rectangles, an L with thick arms, an L whose
\* arms are as wide as half a node of level 0, and a polygon without area
Square == <<Point(0, 0), Point(Side, 0), Point(Side, Side), Point(0, Side)>>
Rectangle ==
    <<Point(0, 0), Point(Side, 0), Point(Side, Side \div 2), Point(0, Side \div 2)>>
Slab ==
    <<Point(0, 0), Point(Side, 0), Point(Side, Side \div 4), Point(0, Side \div 4)>>
ThickL ==
    <<Point(0, 0), Point(Side, 0), Point(Side, Side \div 2), Point(Side \div 2, Side \div 2),
      Point(Side \div 2, Side), Point(0, Side)>>
ThinL ==
    <<Point(0, 0), Point(Side, 0), Point(Side, 1), Point(1, 1), Point(1, Side), Point(0, Side)>>
Flat == <<Point(0, 0), Point(Side \div 2, 0), Point(Side, 0)>>
Polygons == {Square, Rectangle, Slab, ThickL, ThinL, Flat}

\* coverage goals, in tenths
CoverageGoals == {4, 5, 9, 10}

\* (mutant) POINode::new that measures the distance to the edges only
POINode_new_at_edges_only(bbox, level, poly, poles) ==
    LET centroid == AARectangle_centroid(bbox)
        centroid_inside ==
            /\ SimplePolygon_collides_with(poly, centroid)
            /\ \A k \in DOMAIN poles : ~Circle_collides_with(poles[k], centroid)
        distance_to_edges == {Edge_distance(e, centroid) : e \in edge_iter(poly)}
        distance_to_border == SetMin({F64_MAX} \cup distance_to_edges)
    IN  [level |-> level, bbox |-> bbox, radius |-> AARectangle_diameter(bbox) \div 2,
         distance |-> IF centroid_inside THEN distance_to_border ELSE -distance_to_border]

\* POINode::new
POINode_new_at(bbox, level, poly, poles) ==
    LET centroid == AARectangle_centroid(bbox)
        centroid_inside ==
            /\ SimplePolygon_collides_with(poly, centroid)
            /\ \A k \in DOMAIN poles : ~Circle_collides_with(poles[k], centroid)
        distance_to_edges == {Edge_distance(e, centroid) : e \in edge_iter(poly)}
        distance_to_poles ==
            {Circle_distance_from_border(poles[k], centroid)[2] : k \in DOMAIN poles}
        distance_to_border == SetMin({F64_MAX} \cup distance_to_edges \cup distance_to_poles)
    IN  [level |-> level, bbox |-> bbox, radius |-> AARectangle_diameter(bbox) \div 2,
         distance |-> IF centroid_inside THEN distance_to_border ELSE -distance_to_border]

\* POINode::split
POINode_split_at(node, poly, poles) ==
    IF node.level = 0 THEN None
    ELSE Some([qd \in Quadrants |->
                  POINode_new_at(AARectangle_quadrants(node.bbox)[qd], node.level - 1,
                                 poly, poles)])

\* POINode::distance_upperbound
distance_upperbound(node) == node.radius + node.distance

\* the closure distance of generate_next_pole
best_distance(circle) == IF circle = None THEN 0 ELSE circle[1].radius

\* (mutant) loop body that takes a node for the best when it is as far from
\* the border as the best so far
pop_front_accepts_equal(node, state, poly, poles) ==
    LET new_best ==
            IF node.distance >= best_distance(state.best)
            THEN Some(Circle_new(AARectangle_centroid(node.bbox), node.distance))
            ELSE state.best
        children ==
            IF distance_upperbound(node) > best_distance(new_best)
            THEN POINode_split_at(node, poly, poles)
            ELSE None
    IN  [best |-> new_best,
         back |-> IF children = None THEN state.back ELSE state.back \o children[1]]

\* (mutant) loop body that puts the children before the nodes pushed earlier
pop_front_pushing_front(node, state, poly, poles) ==
    LET new_best ==
            IF node.distance > best_distance(state.best)
            THEN Some(Circle_new(AARectangle_centroid(node.bbox), node.distance))
            ELSE state.best
        children ==
            IF distance_upperbound(node) > best_distance(new_best)
            THEN POINode_split_at(node, poly, poles)
            ELSE None
    IN  [best |-> new_best,
         back |-> IF children = None THEN state.back ELSE children[1] \o state.back]

\* the body of the loop of generate_next_pole for the node popped from the
\* front; the children go to the back of the queue
pop_front(node, state, poly, poles) ==
    LET new_best ==
            IF node.distance > best_distance(state.best)
            THEN Some(Circle_new(AARectangle_centroid(node.bbox), node.distance))
            ELSE state.best
        children ==
            IF distance_upperbound(node) > best_distance(new_best)
            THEN POINode_split_at(node, poly, poles)
            ELSE None
    IN  [best |-> new_best,
         back |-> IF children = None THEN state.back ELSE state.back \o children[1]]

\* the loop over the nodes nodes[lo..hi] that are in the queue, front to
\* back; the left half is evaluated before the right half starts
RECURSIVE pop_front_all(_, _, _, _, _, _)
pop_front_all(nodes, lo, hi, state, poly, poles) ==
    IF lo = hi THEN pop_front(nodes[lo], state, poly, poles)
    ELSE LET mid == (lo + hi) \div 2
             left == pop_front_all(nodes, lo, mid, state, poly, poles)
         IN  IF Len(left.back) >= 0
             THEN pop_front_all(nodes, mid + 1, hi, left, poly, poles)
             ELSE left

\* while let Some(node) = queue.pop_front(): the nodes in the queue are
\* popped in order, then the children they have pushed
RECURSIVE generate_next_pole_loop(_, _, _, _)
generate_next_pole_loop(nodes, best_so_far, poly, poles) ==
    IF nodes = <<>> THEN best_so_far
    ELSE LET state == pop_front_all(nodes, 1, Len(nodes),
                                    [best |-> best_so_far, back |-> <<>>], poly, poles)
         IN  generate_next_pole_loop(state.back, state.best, poly, poles)

\* generate_next_pole: Some(circle), or None where best.expect panics
generate_next_pole(poly, poles) ==
    LET square_bbox == AARectangle_inflate_to_square(SimplePolygon_bbox(poly))
        root == POINode_new_at(square_bbox, MAX_POI_TREE_DEPTH, poly, poles)
    IN  generate_next_pole_loop(<<root>>, None, poly, poles)

\* SimplePolygon::new: the PoI is generate_next_pole(shape, &[])
SimplePolygon_new ==
    /\ sur_pc = "points"
    /\ poi' = generate_next_pole(polygon, <<>>)
    /\ sur_pc' = IF poi' = None THEN "panicked" ELSE "polygon"
    /\ UNCHANGED <<polygon, max_poles, coverage_goal, all_poles, total_pole_area,
                   sorted_poles>>

\* generate_additional_surrogate_poles up to the loop
generate_additional_surrogate_poles(mp, cg) ==
    /\ sur_pc = "polygon"
    /\ max_poles' = mp
    /\ coverage_goal' = cg
    /\ all_poles' = <<poi[1]>>
    /\ total_pole_area' = Circle_area(poi[1])
    /\ sur_pc' = "loop"
    /\ UNCHANGED <<polygon, poi, sorted_poles>>

\* pole_area_goal = shape.area() * coverage_goal; both sides of the
\* comparison are taken times ten
exceeds_pole_area_goal(area) == 10 * area > SimplePolygon_area(polygon) * coverage_goal

\* one iteration of for _ in 0..max_poles, or the end of the loop
generate_additional_surrogate_poles_iter ==
    /\ sur_pc = "loop"
    /\ IF Len(all_poles) - 1 >= max_poles
       THEN /\ sur_pc' = "sort"
            /\ UNCHANGED <<all_poles, total_pole_area>>
       ELSE LET next == generate_next_pole(polygon, all_poles)
            IN  IF next = None
                THEN /\ sur_pc' = "panicked"
                     /\ UNCHANGED <<all_poles, total_pole_area>>
                ELSE /\ total_pole_area' = total_pole_area + Circle_area(next[1])
                     /\ all_poles' = Append(all_poles, next[1])
                     /\ sur_pc' = IF exceeds_pole_area_goal(total_pole_area')
                                   THEN "sort" ELSE "loop"
    /\ UNCHANGED <<polygon, poi, max_poles, coverage_goal, sorted_poles>>

\* (mutant) the index of the first element that is not the smallest
max_by_key_index_above_smallest(objs) ==
    CHOOSE i \in DOMAIN objs :
        /\ \/ \E j \in DOMAIN objs : objs[j] < objs[i]
           \/ \A j \in DOMAIN objs : objs[j] = objs[i]
        /\ \A j \in 1..(i - 1) :
               /\ \A k \in DOMAIN objs : objs[j] <= objs[k]
               /\ \E k \in DOMAIN objs : objs[j] < objs[k]

\* Iterator::max_by_key: the index of the last of the largest elements
max_by_key_index(objs) ==
    CHOOSE i \in DOMAIN objs :
        /\ \A j \in DOMAIN objs : objs[j] <= objs[i]
        /\ \A j \in DOMAIN objs : j > i => objs[j] < objs[i]

\* the sort of the additional poles: the pole that is large and far from
\* the poles before it comes next
RECURSIVE sort_poles(_, _)
sort_poles(unsorted_poles, sorted) ==
    IF unsorted_poles = <<>> THEN sorted
    ELSE LET prior_poles == sorted \o <<poi[1]>>
             min_distance_prior_poles(p) ==
                 SetMin({Circle_distance_from_border(prior_poles[k], p.center)[2] :
                            k \in DOMAIN prior_poles})
             objs == [i \in DOMAIN unsorted_poles |->
                         unsorted_poles[i].radius * unsorted_poles[i].radius *
                         min_distance_prior_poles(unsorted_poles[i])]
             next_pole_index == max_by_key_index(objs)
         IN  sort_poles(SeqRemove(unsorted_poles, next_pole_index),
                        Append(sorted, unsorted_poles[next_pole_index]))

\* generate_additional_surrogate_poles after the loop
generate_additional_surrogate_poles_sort ==
    /\ sur_pc = "sort"
    /\ sorted_poles' = sort_poles(Tail(all_poles), <<>>)
    /\ sur_pc' = "sorted"
    /\ UNCHANGED <<polygon, poi, max_poles, coverage_goal, all_poles, total_pole_area>>

\* the points of a polygon are given
InitSurrogate ==
    /\ ProblemIdle
    /\ HPGIdle
    /\ POIIdle
    /\ ParseIdle
    /\ TransformIdle
    /\ GuiIdle
    /\ polygon \in Polygons
    /\ poi = None
    /\ max_poles = 0
    /\ coverage_goal = 0
    /\ all_poles = <<>>
    /\ total_pole_area = 0
    /\ sorted_poles = <<>>
    /\ sur_pc = "points"

GeneratePoI ==
    /\ SimplePolygon_new
    /\ UNCHANGED <<problem_vars, hpg_vars, poi_vars, parse_vars, transf_vars, gui_vars>>
GenerateAdditionalSurrogatePoles ==
    /\ \E mp \in 0..MaxPoles : \E cg \in CoverageGoals :
          generate_additional_surrogate_poles(mp, cg)
    /\ UNCHANGED <<problem_vars, hpg_vars, poi_vars, parse_vars, transf_vars, gui_vars>>
GenerateNextPole ==
    /\ generate_additional_surrogate_poles_iter
    /\ UNCHANGED <<problem_vars, hpg_vars, poi_vars, parse_vars, transf_vars, gui_vars>>
SortPoles ==
    /\ generate_additional_surrogate_poles_sort
    /\ UNCHANGED <<problem_vars, hpg_vars, poi_vars, parse_vars, transf_vars, gui_vars>>

NextSurrogate ==
    \/ GeneratePoI
    \/ GenerateAdditionalSurrogatePoles
    \/ GenerateNextPole
    \/ SortPoles

SpecSurrogate == InitSurrogate /\ [][NextSurrogate]_vars

\* ------------------------------------------------------------------ parser
\* Parser::parse on JSON instances of which the variant of every shape, the
\* qualities, and the presence of bins and of a strip are kept.
MaxParseItems == 2   \* items of the JSON instance

\* the variants of Option<JsonShape>
JsonShapes == {"Rectangle", "SimplePolygon", "Polygon", "MultiPolygon", "NoShape"}

\* JsonItem, JsonBin with its zones, JsonInstance
JsonItem(shape_variant, base_quality) ==
    [shape |-> shape_variant, base_quality |-> base_quality]
JsonQualityZone(quality, shape_variant) == [quality |-> quality, shape |-> shape_variant]
JsonBin(shape_variant, zones) == [shape |-> shape_variant, zones |-> zones]
JsonInstance(items, bins, strip) == [items |-> items, bins |-> bins, strip |-> strip]

\* the JSON instances handed to the parser
JsonItemInputs ==
    {JsonItem("Rectangle", bq) : bq \in {None, Some(0), Some(N_QUALITIES - 1),
                                         Some(N_QUALITIES), Some(N_QUALITIES + 1)}}
    \cup {JsonItem("SimplePolygon", Some(3)), JsonItem("MultiPolygon", None)}
JsonBinInputs ==
    {JsonBin("Rectangle", zs) :
        zs \in {<<>>,
                <<JsonQualityZone(3, "Rectangle")>>,
                <<JsonQualityZone(N_QUALITIES - 1, "SimplePolygon")>>,
                <<JsonQualityZone(N_QUALITIES, "Rectangle")>>,
                <<JsonQualityZone(3, "Rectangle"), JsonQualityZone(N_QUALITIES + 2, "Rectangle")>>}}
    \cup {JsonBin("Polygon", <<JsonQualityZone(0, "Polygon")>>),
          JsonBin("MultiPolygon", <<>>)}
JsonInstances ==
    {JsonInstance(items, bins, strip) :
        items \in SeqsUpTo(JsonItemInputs, MaxParseItems) \ {<<>>},
        bins \in {None} \cup {Some(<<b>>) : b \in JsonBinInputs},
        strip \in {None, Some([height |-> 10])}}

\* Parser::parse_item: the Item, or the panic of an unsupported shape
parse_item(json_item, item_id) ==
    IF json_item.shape \in {"Rectangle", "SimplePolygon"}
    THEN [kind |-> "Item", id |-> item_id, base_quality |-> json_item.base_quality]
    ELSE IF json_item.shape = "Polygon"
    THEN Panic("No support for polygon shapes yet")
    ELSE IF json_item.shape = "MultiPolygon"
    THEN Panic("No support for multipolygon shapes yet")
    ELSE Panic("No shape specified for item")

\* the shape of a zone: Polygon and MultiPolygon are not implemented
zone_shape_supported(zone) == zone.shape \in {"Rectangle", "SimplePolygon"}

\* Parser::parse_bin: the Bin with its zones per quality, or a panic
parse_bin(json_bin, bin_id) ==
    IF json_bin.shape = "MultiPolygon"
    THEN Panic("No support for multipolygon shapes yet")
    ELSE IF json_bin.shape = "NoShape"
    THEN Panic("No shape specified for bin")
    ELSE IF ~\A k \in DOMAIN json_bin.zones : json_bin.zones[k].quality < N_QUALITIES
    THEN Panic("Quality must be less than N_QUALITIES")
    ELSE IF \E k \in DOMAIN json_bin.zones : ~zone_shape_supported(json_bin.zones[k])
    THEN Panic("No support for this zone shape yet")
    ELSE [kind |-> "Bin", id |-> bin_id,
          quality_zones |->
              [quality \in 0..(N_QUALITIES - 1) |->
                  {k \in DOMAIN json_bin.zones : json_bin.zones[k].quality = quality}]]

\* the first panic among the outcomes, if there is one
FirstPanic(outcomes) ==
    LET panics == {k \in DOMAIN outcomes : outcomes[k].kind = "Panic"}
    IN  IF panics = {} THEN None ELSE Some(outcomes[SetMin(panics)])

BPInstance_new(items, bins) == [kind |-> "BP", items |-> items, bins |-> bins]
SPInstance_new(items, strip_height) ==
    [kind |-> "SP", items |-> items, strip_height |-> strip_height]

\* (mutant) Parser::parse that takes the bins when a strip is given as well
parse_prefers_bins(ji) ==
    LET items == [k \in DOMAIN ji.items |-> parse_item(ji.items[k], k - 1)]
        bins == [k \in DOMAIN ji.bins[1] |-> parse_bin(ji.bins[1][k], k - 1)]
    IN  IF FirstPanic(items) # None THEN FirstPanic(items)[1]
        ELSE IF ji.bins # None
        THEN IF FirstPanic(bins) # None THEN FirstPanic(bins)[1]
             ELSE BPInstance_new(items, bins)
        ELSE IF ji.strip # None
        THEN SPInstance_new(items, ji.strip[1].height)
        ELSE Panic("Neither bins or strips specified")

\* Parser::parse: the Instance, or the panic that ends the call
parse(ji) ==
    LET items == [k \in DOMAIN ji.items |-> parse_item(ji.items[k], k - 1)]
        bins == [k \in DOMAIN ji.bins[1] |-> parse_bin(ji.bins[1][k], k - 1)]
    IN  IF FirstPanic(items) # None THEN FirstPanic(items)[1]
        ELSE IF ji.bins # None /\ ji.strip = None
        THEN IF FirstPanic(bins) # None THEN FirstPanic(bins)[1]
             ELSE BPInstance_new(items, bins)
        ELSE IF ji.bins = None /\ ji.strip # None
        THEN SPInstance_new(items, ji.strip[1].height)
        ELSE IF ji.bins # None /\ ji.strip # None
        THEN Panic("Both bins and strip packing specified, has to be one or the other")
        ELSE Panic("Neither bins or strips specified")

\* the cells an item of the instance is checked against
ParsedItemCells ==
    {HPGCell_new(CellBBox(c), static) : c \in CellIds, static \in StaticConfigs}

\* self.qz_prox[quality] for every relevant quality, as could_accommodate_item
\* asks for item.base_quality: the proximity, or the panic of an index
\* outside the array; read holds the indices asked for
hazard_proximity_of_item(cell, item) ==
    LET read == relevant_qualities(item.base_quality)
    IN  IF read \subseteq DOMAIN cell.qz_prox
        THEN [kind |-> "Proximity", value |-> hazard_proximity(cell, item.base_quality),
              read |-> read]
        ELSE [kind |-> "Panic", message |-> "index out of bounds", read |-> read]

InitParse ==
    /\ ProblemIdle
    /\ HPGIdle
    /\ POIIdle
    /\ SurrogateIdle
    /\ TransformIdle
    /\ GuiIdle
    /\ json_instance \in JsonInstances
    /\ instance = None
    /\ item_haz_prox = None

Parse ==
    /\ instance = None
    /\ instance' = Some(parse(json_instance))
    /\ UNCHANGED <<json_instance, item_haz_prox>>
    /\ UNCHANGED <<problem_vars, hpg_vars, poi_vars, sur_vars, transf_vars, gui_vars>>

HazardProximityOfItem ==
    /\ instance # None
    /\ instance[1].kind # "Panic"
    /\ \E k \in DOMAIN instance[1].items : \E cell \in ParsedItemCells :
          item_haz_prox' = Some(hazard_proximity_of_item(cell, instance[1].items[k]))
    /\ UNCHANGED <<json_instance, instance>>
    /\ UNCHANGED <<problem_vars, hpg_vars, poi_vars, sur_vars, transf_vars, gui_vars>>

NextParse ==
    \/ Parse
    \/ HazardProximityOfItem

SpecParse == InitParse /\ [][NextParse]_vars

\* --------------------------------------------- transformations at the boundary
\* internal_to_absolute_transform as compose_json_solution applies it, its
\* decomposition written to the JSON, and absolute_to_internal_transform as
\* the rebuild applies it to what it reads
MaxTranslation == 1   \* largest coordinate of a translation

\* placements: any number of quarter turns from -1 to 3
DTransformations ==
    {DTransformation_new(rotation, <<x, y>>) :
        rotation \in (0 - 1)..3,
        x \in (0 - MaxTranslation)..MaxTranslation,
        y \in (0 - MaxTranslation)..MaxTranslation}

\* pretransforms: a rotation and a translation
Pretransforms ==
    {Transformation_from_dt(DTransformation_new(rotation, <<x, y>>)) :
        rotation \in 0..3, x \in 0..MaxTranslation, y \in 0..MaxTranslation}

InitTransform ==
    /\ ProblemIdle
    /\ HPGIdle
    /\ POIIdle
    /\ SurrogateIdle
    /\ ParseIdle
    /\ GuiIdle
    /\ d_transf \in DTransformations
    /\ pretransf_item \in Pretransforms
    /\ pretransf_bin \in Pretransforms
    /\ json_transf = None
    /\ transform = None

\* compose_json_solution: abs_transf of a placed item
InternalToAbsolute ==
    /\ json_transf = None
    /\ json_transf' = Some(Transformation_decompose(
                          internal_to_absolute_transform(d_transf, pretransf_item,
                                                         pretransf_bin)))
    /\ UNCHANGED <<d_transf, pretransf_item, pretransf_bin, transform>>
    /\ UNCHANGED <<problem_vars, hpg_vars, poi_vars, sur_vars, parse_vars, gui_vars>>

\* build_*_solution: transf of a JSON placed item
AbsoluteToInternal ==
    /\ json_transf # None
    /\ transform = None
    /\ transform' = Some(absolute_to_internal_transform(json_transf[1], pretransf_item,
                                                        pretransf_bin))
    /\ UNCHANGED <<d_transf, pretransf_item, pretransf_bin, json_transf>>
    /\ UNCHANGED <<problem_vars, hpg_vars, poi_vars, sur_vars, parse_vars, gui_vars>>

NextTransform ==
    \/ InternalToAbsolute
    \/ AbsoluteToInternal

SpecTransform == InitTransform /\ [][NextTransform]_vars

\* -------------------------------------------------------------- GUI backend
\* The rocket server of src/gui/backend: the managed state SvgFiles, a
\* Mutex<Vec<String>>, and the handlers of POST /json and GET /solution.
\* Requests are handled concurrently, every handler runs line by line.
MaxRequests == 2     \* requests in flight at a time
Requests == 1..MaxRequests

\* the json_str of InputData: empty or an instance
JsonStrs == {"", "instance"}

\* what solve_json can return: no file, one file, two files
SolverResults ==
    {<<>>,
     <<"./static/solutions/sol_web_0.svg">>,
     <<"./static/solutions/sol_lbf_0.svg", "./static/solutions/sol_lbf_1.svg">>}

\* solve_json returns its files or panics (on a json_str the parser rejects)
Returned(files) == [kind |-> "Returned", files |-> files]
SolverOutcomes == {Returned(files) : files \in SolverResults} \cup {Panic("solve_json")}

\* the responses: Flash::error / Flash::success with the redirect, and ()
Flash_error(redirect, message) ==
    [kind |-> "Flash", name |-> "error", redirect |-> redirect, message |-> message]
Flash_success(redirect, message) ==
    [kind |-> "Flash", name |-> "success", redirect |-> redirect, message |-> message]
Unit == [kind |-> "Unit"]

\* a slot without a request, a request that has come in, and one that is
\* answered
NoRequest ==
    [kind |-> "none", pc |-> "idle", json_str |-> "", svg_files |-> None,
     response |-> None]
Request(kind, pc, json_str) ==
    [kind |-> kind, pc |-> pc, json_str |-> json_str, svg_files |-> None,
     response |-> None]
Answered(request, response) ==
    [request EXCEPT !.pc = "done", !.response = Some(response)]

\* Mutex::lock().expect("State lock poisoned") by request r: the mutex is
\* taken when it is free; a poisoned mutex makes expect panic
lock_expect(r, held_pc) ==
    /\ svg_state.holder = 0
    /\ IF svg_state.poisoned
       THEN /\ requests' = [requests EXCEPT
                               ![r] = Answered(@, Panic("State lock poisoned"))]
            /\ UNCHANGED svg_state
       ELSE /\ requests' = [requests EXCEPT ![r].pc = held_pc]
            /\ svg_state' = [svg_state EXCEPT !.holder = r]

\* the MutexGuard of request r is dropped: while the thread panics the
\* mutex is poisoned
drop_guard(panicking) ==
    [svg_state EXCEPT !.holder = 0, !.poisoned = @ \/ panicking]

\* rocket hands a POST /json or a GET /solution to its handler
receive(r, request) ==
    /\ requests[r].pc \in {"idle", "done"}
    /\ requests' = [requests EXCEPT ![r] = request]
    /\ UNCHANGED svg_state

\* json: if json.json_str.is_empty() { return Flash::error(..) }
json_check_json_str(r) ==
    /\ requests[r].pc = "json_28"
    /\ requests' = [requests EXCEPT ![r] =
                       IF @.json_str = ""
                       THEN Answered(@, Flash_error("/", "JSON cannot be empty."))
                       ELSE [@ EXCEPT !.pc = "json_32"]]
    /\ UNCHANGED svg_state

\* json: let svg_files = solve_json(..), which returns the files or panics
json_solve_json(r, outcome) ==
    /\ requests[r].pc = "json_32"
    /\ requests' = [requests EXCEPT ![r] =
                       IF outcome.kind = "Panic"
                       THEN Answered(@, outcome)
                       ELSE [@ EXCEPT !.pc = "json_33", !.svg_files = Some(outcome.files)]]
    /\ UNCHANGED svg_state

\* (mutant) test of the solver result that lets an empty list pass
json_on_svg_files_storing_empty(request) == [request EXCEPT !.pc = "json_36"]

\* json: if svg_files.is_empty() { return Flash::error(..) } else { .. }
json_on_svg_files(request) ==
    IF request.svg_files[1] = <<>>
    THEN Answered(request, Flash_error("/", "No solution found."))
    ELSE [request EXCEPT !.pc = "json_36"]

json_check_svg_files(r) ==
    /\ requests[r].pc = "json_33"
    /\ requests' = [requests EXCEPT ![r] = json_on_svg_files(@)]
    /\ UNCHANGED svg_state

\* json: let mut state = svg_state.lock().expect("State lock poisoned")
json_lock(r) ==
    /\ requests[r].pc = "json_36"
    /\ lock_expect(r, "json_37")

\* json: *state = svg_files
json_store(r) ==
    /\ requests[r].pc = "json_37"
    /\ svg_state.holder = r
    /\ svg_state' = [svg_state EXCEPT !.files = requests[r].svg_files[1]]
    /\ requests' = [requests EXCEPT ![r].pc = "json_39"]

\* json: return Flash::success(..); the guard goes out of scope
json_return(r) ==
    /\ requests[r].pc = "json_39"
    /\ svg_state.holder = r
    /\ svg_state' = drop_guard(FALSE)
    /\ requests' = [requests EXCEPT
                       ![r] = Answered(@, Flash_success("/solution", "Solution found."))]

\* sol: let svg_files = svg_state.lock().expect("State lock poisoned")
sol_lock(r) ==
    /\ requests[r].pc = "sol_45"
    /\ lock_expect(r, "sol_46")

\* sol: let path = svg_files.get(0).unwrap(): unwrap panics on None and the
\* guard is dropped while the thread unwinds
sol_get(r) ==
    /\ requests[r].pc = "sol_46"
    /\ svg_state.holder = r
    /\ IF svg_state.files = <<>>
       THEN /\ svg_state' = drop_guard(TRUE)
            /\ requests' = [requests EXCEPT ![r] =
                               Answered(@, Panic("called Option::unwrap() on a None value"))]
       ELSE /\ requests' = [requests EXCEPT ![r].pc = "sol_47"]
            /\ UNCHANGED svg_state

\* sol: the paths are printed and the handler returns (); the guard goes
\* out of scope
sol_return(r) ==
    /\ requests[r].pc = "sol_47"
    /\ svg_state.holder = r
    /\ svg_state' = drop_guard(FALSE)
    /\ requests' = [requests EXCEPT ![r] = Answered(@, Unit)]

\* rocket(): .manage(SvgFiles::default()), no request has come in
InitGui ==
    /\ ProblemIdle
    /\ HPGIdle
    /\ POIIdle
    /\ SurrogateIdle
    /\ ParseIdle
    /\ TransformIdle
    /\ svg_state = [files |-> <<>>, poisoned |-> FALSE, holder |-> 0]
    /\ requests = [r \in Requests |-> NoRequest]

NoGuiChange ==
    UNCHANGED <<problem_vars, hpg_vars, poi_vars, sur_vars, parse_vars, transf_vars>>

PostJson ==
    /\ \E r \in Requests : \E json_str \in JsonStrs :
          receive(r, Request("json", "json_28", json_str))
    /\ NoGuiChange
GetSolution ==
    /\ \E r \in Requests : receive(r, Request("sol", "sol_45", ""))
    /\ NoGuiChange
JsonCheckJsonStr ==
    /\ \E r \in Requests : json_check_json_str(r)
    /\ NoGuiChange
JsonSolveJson ==
    /\ \E r \in Requests : \E outcome \in SolverOutcomes : json_solve_json(r, outcome)
    /\ NoGuiChange
JsonCheckSvgFiles ==
    /\ \E r \in Requests : json_check_svg_files(r)
    /\ NoGuiChange
JsonLock ==
    /\ \E r \in Requests : json_lock(r)
    /\ NoGuiChange
JsonStore ==
    /\ \E r \in Requests : json_store(r)
    /\ NoGuiChange
JsonReturn ==
    /\ \E r \in Requests : json_return(r)
    /\ NoGuiChange
SolLock ==
    /\ \E r \in Requests : sol_lock(r)
    /\ NoGuiChange
SolGet ==
    /\ \E r \in Requests : sol_get(r)
    /\ NoGuiChange
SolReturn ==
    /\ \E r \in Requests : sol_return(r)
    /\ NoGuiChange

NextGui ==
    \/ PostJson
    \/ GetSolution
    \/ JsonCheckJsonStr
    \/ JsonSolveJson
    \/ JsonCheckSvgFiles
    \/ JsonLock
    \/ JsonStore
    \/ JsonReturn
    \/ SolLock
    \/ SolGet
    \/ SolReturn

SpecGui == InitGui /\ [][NextGui]_vars

\* ------------------------------------------------------------------ claims
\* number of placed copies of item i summed over the active layouts
PlacedCount(i) ==
    SumSeq([k \in DOMAIN layouts |->
               Cardinality({pi \in layouts[k].placed_items : pi.item_id = i})])

\* the options place_item can be called with in the current state: any
\* option on the interface, the option of the next step in a rebuild
StepOptions ==
    IF build.pc = "api" THEN PlacingOptions
    ELSE IF build_places_item THEN {build_placing_option} ELSE {}

C2_MissingIsTargetMinusPlaced ==
    \A i \in ItemIds : missing_item_qtys[i] = item_qty(i) - PlacedCount(i)

\* the quantities have been recomputed by a restore, with items placed
C2_Witness ==
    /\ result.kind = "Restored"
    /\ \E i \in ItemIds : PlacedCount(i) > 0
    /\ \E i \in ItemIds : missing_item_qtys[i] > 0

\* C3: missing_item_qtys[i] is never negative: no sequence of place_item
\* calls places more copies of an item than its target quantity.
C3_MissingNeverNegative ==
    \A i \in ItemIds : missing_item_qtys[i] >= 0 /\ PlacedCount(i) <= item_qty(i)

\* a further copy of an item whose quantity is met has been asked for
C3_Witness ==
    /\ result = Rejected("QuantityExhausted")
    /\ \A i \in ItemIds : missing_item_qtys[i] = 0 /\ PlacedCount(i) = item_qty(i)
    /\ \E i \in ItemIds : PlacedCount(i) = 2

\* the option targets an empty (template) layout whose bin has no stock left
TargetsBinWithoutStock(opt) ==
    /\ opt.layout_index[1] = "Empty"
    /\ bin_qtys[empty_layouts[opt.layout_index[2]].bin.id] = 0

\* layouts (placed items and CDE), missing quantities and stock are as before
NothingApplied(out) ==
    /\ out.layouts = layouts
    /\ out.missing = missing_item_qtys
    /\ out.bin_qtys = bin_qtys

C5_NoStockRejected ==
    \A opt \in StepOptions :
        TargetsBinWithoutStock(opt) =>
            LET out == PlaceOutcome(opt)
            IN  /\ out.result = Rejected("NoStock")
                /\ Len(out.layouts) = Len(layouts)
                /\ NothingApplied(out)

\* the rebuild has asked for a second layout of a bin of stock 1 in use
C5_Witness ==
    /\ ptype = "BP"
    /\ build.pc = "panicked"
    /\ result = Rejected("NoStock")
    /\ Len(layouts) = 1
    /\ BinStock(layouts[1].bin.id) = 1
    /\ bin_qtys[layouts[1].bin.id] = 0
    /\ json_layouts[build.li].container = <<"Bin", layouts[1].bin.id>>

\* the placement has been applied in full: the item is new in the layout the
\* result names, its hazard is registered there, its missing quantity is
\* one less, and no other item is touched
AllApplied(opt, out) ==
    /\ out.result.kind = "Placed"
    /\ out.result.uid = PlacedItem(opt.item_id, opt.x)
    /\ out.result.layout_index[1] = "Existing"
    /\ out.result.layout_index[2] + 1 \in DOMAIN out.layouts
    /\ out.layouts[out.result.layout_index[2] + 1].placed_items =
           get_layout(opt.layout_index).placed_items \cup {out.result.uid}
    /\ out.layouts[out.result.layout_index[2] + 1].cde.hazards =
           get_layout(opt.layout_index).cde.hazards \cup {out.result.uid}
    /\ out.result.uid \notin get_layout(opt.layout_index).placed_items
    /\ out.missing =
           [missing_item_qtys EXCEPT ![opt.item_id] = missing_item_qtys[opt.item_id] - 1]

LayoutDropped(out, k) ==
    /\ Len(out.layouts) = Len(layouts) - 1
    /\ \A j \in DOMAIN out.layouts :
           out.layouts[j] = IF j < k THEN layouts[j] ELSE layouts[j + 1]
    /\ out.bin_qtys = [b \in DOMAIN bin_qtys |->
                          IF b = layouts[k].bin.id THEN bin_qtys[b] + 1 ELSE bin_qtys[b]]

\* the layout at position k (1-based) has lost uid and nothing else
ItemDropped(out, k, uid) ==
    /\ Len(out.layouts) = Len(layouts)
    /\ out.layouts[k].bin = layouts[k].bin
    /\ out.layouts[k].placed_items = layouts[k].placed_items \ {uid}
    /\ out.layouts[k].cde.hazards = layouts[k].cde.hazards \ {uid}
    /\ \A j \in DOMAIN layouts : j # k => out.layouts[j] = layouts[j]
    /\ out.bin_qtys = bin_qtys

\* C7: remove_item(layout_index, uid) removes exactly that placed item and
\* increments the missing quantity of its item by exactly one; in bin
\* packing a layout left with no items leaves the active layouts and its bin
\* is back in stock, the strip-packing layout stays.
C7_RemoveItem ==
    \A i \in ExistingIndices : \A uid \in layouts[i + 1].placed_items :
        LET out == RemoveOutcome(i, uid)
        IN  /\ out.missing =
                   [j \in ItemIds |-> IF j = uid.item_id THEN missing_item_qtys[j] + 1
                                                          ELSE missing_item_qtys[j]]
            /\ IF ptype = "BP" /\ layouts[i + 1].placed_items = {uid}
               THEN LayoutDropped(out, i + 1)
               ELSE ItemDropped(out, i + 1, uid)

\* the only item of the last bin-packing layout has been removed
C7_Witness ==
    /\ result = Done("Removed")
    /\ ptype = "BP"
    /\ layouts = <<>>
    /\ \A b \in BinIds : bin_qtys[b] = BinStock(b)
    /\ \A i \in ItemIds : missing_item_qtys[i] = item_qty(i)

\* C8: snapshot then restore is a round trip: for a solution taken by
\* create_solution in state P, after any sequence of place_item and
\* remove_item calls, restore_to_solution yields a state equal to P in
\* placed items per layout, usage and per-item missing quantities.
C8_SnapshotRestoreRoundTrip ==
    \A k \in DOMAIN solutions :
        LET out == RestoreOutcome(solutions[k])
        IN  ObservableOf(out.layouts, out.missing) = observed[k]

\* the problem has been restored to the first of two solutions taken in
\* different states, with items placed in it
C8_Witness ==
    /\ result = Done("Restored")
    /\ Len(solutions) = 2
    /\ observed[1] # observed[2]
    /\ Observable = observed[1]
    /\ \E k \in DOMAIN layouts : layouts[k].placed_items # {}

\* C9: a Solution is immutable once created: no later place_item,
\* remove_item, create_solution, restore_to_solution or flush_changes
\* changes the layout snapshots, quantities or usage stored in it; the
\* export of a solution, after which a new problem is built, keeps the
\* exported Solution as it is.
C9_SolutionImmutable ==
    [][IF composed' = composed
       THEN \A k \in DOMAIN solutions :
               k \in DOMAIN solutions' /\ solutions'[k] = solutions[k]
       ELSE \E k \in DOMAIN solutions : composed' = Some(solutions[k])]_vars

\* two solutions exist and the problem has moved away from both by a removal
C9_Witness ==
    /\ result = Done("Removed")
    /\ Len(solutions) = 2
    /\ \A k \in DOMAIN solutions :
           /\ solutions[k].placed_item_qtys # included_item_qtys
           /\ solutions[k].layout_snapshots # <<>>

\* C10: solution ids are monotonically increasing: of any two solutions
\* created by the same problem, the later one has the strictly larger id,
\* also when restore_to_solution was called in between.
C10_SolutionIdsIncrease ==
    \A j, k \in DOMAIN solutions :
        j < k => solutions[j].id < solutions[k].id

\* a second solution has been created after a restore to the first one
C10_Witness ==
    /\ result = Done("Created")
    /\ Len(solutions) = 2
    /\ Observable = observed[1]
    /\ solutions[2].layout_snapshots = solutions[1].layout_snapshots
    /\ solutions[1].layout_snapshots # <<>>

\* C11: placements take effect immediately: once place_item has returned,
\* a query for a placement that overlaps a placed item reports a collision,
\* also while the changes of the layout have not been flushed.
C11_PlacementVisibleBeforeFlush ==
    \A k \in DOMAIN layouts : \A pi \in layouts[k].placed_items :
        \A i \in ItemIds : \A x \in Translations :
            Cells(i, x) \cap PlacedCells(pi) # {}
                => CDE_poly_collides(layouts[k], i, x)

\* place_item has just placed an item, the layout is not flushed, and some
\* option inside the bin overlaps nothing but the new item
C11_Witness ==
    /\ result.kind = "Placed"
    /\ \E k \in DOMAIN layouts :
           /\ layouts[k].cde.pending
           /\ Cardinality(layouts[k].placed_items) = 1
           /\ \E pi \in layouts[k].placed_items : \E i \in ItemIds : \E x \in Translations :
                  /\ Cells(i, x) \subseteq BinCells(layouts[k].bin)
                  /\ Cells(i, x) \cap PlacedCells(pi) # {}

PoleProx(cell, h) == distance_to_surrogate_poles_border(cell, h.poles)

\* the distance of the nearest of the static universal hazards and the
\* dynamic hazards H, seen from a cell
NearestProx(cell, H) ==
    SetMin({cell.static_uni_prox[1]} \cup {PoleProx(cell, h) : h \in H})

\* C13: after any sequence of register_hazard, register_hazards and
\* deregister_hazards on a cell, with remaining holding exactly the hazards
\* still registered, uni_prox is the nearest active universal hazard: its
\* distance is the minimum of the static distance and the pole-based
\* proximity of every registered hazard, and its entity is the static one
\* or a hazard still registered at that distance.
C13_UniProxIsNearestRegistered ==
    ~pole_registered =>
        \A c \in DOMAIN cells :
            /\ cells[c].uni_prox[1] = NearestProx(cells[c], registered)
            /\ entity_universal(cells[c].uni_prox[2])
            /\ \/ cells[c].uni_prox = cells[c].static_uni_prox
               \/ \E h \in registered :
                      cells[c].uni_prox = <<PoleProx(cells[c], h), h.entity>>

\* a deregistration has just removed the nearest hazard of a cell, and a
\* hazard that stayed registered has taken its place
C13_Witness ==
    /\ ~pole_registered
    /\ hpg_result.op = "deregister_hazards"
    /\ \E c \in DOMAIN cells :
           /\ hpg_result.updates[c] = "Affected"
           /\ cells[c].uni_prox[1] < cells[c].static_uni_prox[1]
           /\ \E h \in registered : cells[c].uni_prox[2] = h.entity

\* C14: deregister_hazards returns NotAffected and leaves the cell as it is
\* when none of the deregistered entities is the uni_prox entity of the
\* cell; otherwise it returns Affected and leaves the cell at the nearest of
\* the static hazards and the remaining active hazards, none of the
\* deregistered entities being kept.
C14_DeregisterHazards ==
    \A c \in DOMAIN cells : \A D \in SUBSET registered :
        LET to_deregister == {h.entity : h \in D}
            remaining == registered \ D
            out == deregister_hazards(cells[c], to_deregister, HazardSeq(remaining))
        IN  IF cells[c].uni_prox[2] \notin to_deregister
            THEN out.update = "NotAffected" /\ out.cell = cells[c]
            ELSE /\ out.update = "Affected"
                 /\ out.cell.uni_prox[1] = NearestProx(cells[c], remaining)
                 /\ out.cell.uni_prox[2] \notin to_deregister
                 /\ out.cell = [cells[c] EXCEPT !.uni_prox = out.cell.uni_prox]

\* one deregistration has reset and refilled a cell and left another cell
\* untouched, with a hazard remaining
C14_Witness ==
    /\ hpg_result.op = "deregister_hazards"
    /\ registered # {}
    /\ \E c \in DOMAIN cells : hpg_result.updates[c] = "Affected"
    /\ \E c \in DOMAIN cells :
           /\ hpg_result.updates[c] = "NotAffected"
           /\ cells[c].uni_prox # cells[c].static_uni_prox

\* register_hazard called on every hazard of a slice in turn
RECURSIVE register_each(_, _)
register_each(cell, hazards) ==
    IF hazards = <<>> THEN cell
    ELSE register_each(register_hazard(cell, Head(hazards)).cell, Tail(hazards))

\* C15: bulk registration with early exit is equivalent to full
\* registration: for every cell and every set H of hazards,
\* register_hazards(H) leaves the same uni_prox distance as register_hazard
\* called on every active hazard of H.
C15_BulkEqualsFullRegistration ==
    \A c \in DOMAIN cells : \A H \in HazardSets :
        (\A h \in H : ~h.active \/ Supported(h)) =>
            register_hazards(cells[c], HazardSeq(H)).cell.uni_prox[1]
                = register_each(cells[c], FilterActive(HazardSeq(H))).uni_prox[1]

\* after a bulk registration two hazards are registered and a cell has
\* settled on one of them, the bounding circle of a registered hazard
\* being farther away than that: the case in which the loop stops early
C15_Witness ==
    /\ hpg_result.op = "register_hazards"
    /\ \E c \in DOMAIN cells : \E h \in registered :
           /\ bounding_proximity(cells[c], h)[1] > cells[c].uni_prox[1]
           /\ cells[c].uni_prox[1] < cells[c].static_uni_prox[1]
           /\ Cardinality(registered) >= 2

\* two cells are neighbours when their centroids are at most two cell
\* radii apart
Neighbours(a, b) ==
    /\ a # b
    /\ Abs(cells[a].centroid - cells[b].centroid) <= 2 * cells[a].radius

\* C16: HPG monotonicity: whenever register_hazard(h) returns
\* NeighborsNotAffected on a cell, registering h on any neighbouring cell
\* that had the same hazards registered before does not decrease the
\* uni_prox distance of that neighbour.
C16_NeighborsNotAffectedIsSafe ==
    \A h \in Hazards \ registered : \A a, b \in DOMAIN cells :
        (/\ Supported(h)
         /\ Neighbours(a, b)
         /\ register_hazard(cells[a], h).update = "NeighborsNotAffected")
            => register_hazard(cells[b], h).cell.uni_prox[1] >= cells[b].uni_prox[1]

\* the items the pre-check is asked about: radius of the pole of
\* inaccessibility, half the extent of the shape around it, base quality
HPGItems ==
    {[poi_radius |-> p, half_width |-> p + e, base_quality |-> bq] :
        p \in 1..(3 * HPGRadius), e \in 0..1,
        bq \in {None, Some(0), Some(3), Some(6), Some(N_QUALITIES)}}

\* two shapes overlap when their interiors meet
Overlaps(s, t) == s[1] < t[2] /\ t[1] < s[2]

\* the placement of an item with its centroid at q is collision-free: the
\* shape lies inside the bin and overlaps no hole, no registered hazard and
\* no inferior-quality zone of a quality below the base quality of the item
CollisionFree(item, q) ==
    LET shape == <<q - item.half_width, q + item.half_width>>
    IN  /\ BinShape[1] <= shape[1] /\ shape[2] <= BinShape[2]
        /\ \A h \in registered : ~Overlaps(shape, h.shape)
        /\ \A k \in DOMAIN static_hazards :
               LET sh == static_hazards[k]
               IN  \/ sh.entity.kind = "BinExterior"
                   \/ /\ sh.entity.kind = "InferiorQualityZone"
                      /\ item.base_quality # None
                      /\ sh.entity.quality >= item.base_quality[1]
                   \/ ~Overlaps(shape, sh.shape)

\* the centroids inside a cell
InsideCell(cell) == {q \in 0..HPGWidth : cell.bbox[1] < q /\ q < cell.bbox[2]}

\* the quality zones that restrict an item of the given base quality
RestrictingQualities(base_quality) ==
    {q \in 0..(N_QUALITIES - 1) : base_quality = None \/ q < base_quality[1]}

QualityLevels == {None} \cup {Some(q) : q \in 0..N_QUALITIES}

\* C18: hazard_proximity(quality_level) is the minimum of the uni_prox
\* distance and qz_prox[q] for exactly the qualities q below quality_level
\* (all qualities when None): a nearer zone of a quality below the level
\* lowers it, a zone of the level or above never does, and
\* hazard_proximity(None) <= hazard_proximity(Some(q)) for every q.
C18_HazardProximity ==
    \A c \in DOMAIN cells : \A level \in QualityLevels :
        LET cell == cells[c]
            prox == hazard_proximity(cell, level)
        IN  /\ prox = SetMin({cell.uni_prox[1]} \cup
                             {cell.qz_prox[q] : q \in RestrictingQualities(level)})
            /\ hazard_proximity(cell, None) <= prox
            /\ \A q \in 0..(N_QUALITIES - 1) :
                   LET zone_at_centroid == [cell EXCEPT !.qz_prox[q] = 0]
                   IN  IF q \in RestrictingQualities(level)
                       THEN hazard_proximity(zone_at_centroid, level) = 0
                       ELSE hazard_proximity(zone_at_centroid, level) = prox

\* a cell with a registered hazard as its nearest universal hazard and a
\* nearer quality zone: the zone counts for the levels above its quality
\* only
C18_Witness ==
    \E c \in DOMAIN cells : \E q \in 0..(N_QUALITIES - 1) :
        /\ \E h \in registered : cells[c].uni_prox[2] = h.entity
        /\ cells[c].qz_prox[q] < cells[c].uni_prox[1]
        /\ hazard_proximity(cells[c], Some(q)) = cells[c].uni_prox[1]
        /\ hazard_proximity(cells[c], Some(q + 1)) = cells[c].qz_prox[q]
        /\ hazard_proximity(cells[c], None) = cells[c].qz_prox[q]

\* C19: registering an unsupported dynamic hazard on a cell, a
\* non-universal one (an inferior-quality zone) or an exterior-forbidden
\* one, is rejected with an error and does not change the cell, by
\* register_hazard, register_hazard_pole and register_hazards alike.
C19_UnsupportedHazardRejected ==
    \A c \in DOMAIN cells : \A h \in Hazards :
        (~entity_universal(h.entity) \/ entity_position(h.entity) = "Exterior") =>
            /\ register_hazard(cells[c], h) = Panicked(cells[c])
            /\ \A k \in DOMAIN h.poles :
                   register_hazard_pole(cells[c], h, h.poles[k]) = Panicked(cells[c])
            /\ h.active => register_hazards(cells[c], <<h>>) = Panicked(cells[c])

\* C20: generate_next_pole terminates for every polygon and every list of
\* existing poles: nodes are only split while their remaining depth is
\* positive, so no node lies more than MAX_POI_TREE_DEPTH levels below the
\* root, and the queue eventually becomes empty and the call returns.
C20_GenerateNextPoleTerminates ==
    /\ [](/\ \A k \in DOMAIN queue : queue[k].level \in 0..MAX_POI_TREE_DEPTH
          /\ deepest <= MAX_POI_TREE_DEPTH)
    /\ <>(poi_pc \in {"returned", "panicked"} /\ queue = <<>>)

\* the call has returned a pole after the tree reached its full depth
C20_Witness ==
    /\ poi_pc = "returned"
    /\ queue = <<>>
    /\ deepest = MAX_POI_TREE_DEPTH

\* the point lies inside the polygon and on none of its edges
StrictlyInside(poly, p) ==
    /\ SimplePolygon_collides_with(poly, p)
    /\ \A e \in edge_iter(poly) : Edge_distance(e, p) > 0

\* C21: for a polygon with nonzero area, generate_next_pole(P, []) returns
\* a circle of strictly positive radius whose centre lies strictly inside
\* P, however thin the polygon is
C21_PoIPositiveInside ==
    (sur_pc # "points" /\ SimplePolygon_area(polygon) > 0) =>
        /\ poi # None
        /\ poi[1].radius > 0
        /\ StrictlyInside(polygon, poi[1].center)

\* the area the poles take up
PolesArea(poles) == SumSeq([k \in DOMAIN poles |-> Circle_area(poles[k])])

\* no point of the polygon lies outside every pole: the poles, which lie
\* inside the polygon and apart from each other, take up its whole area
NoFeasiblePoint(poly, poles) == PolesArea(poles) = SimplePolygon_area(poly)

\* C22: when the polygon has no area or the existing poles leave no
\* interior point, generate_next_pole fails instead of returning a circle,
\* and no circle it returns has a zero or negative radius
C22_DegeneratePolygonFails ==
    /\ (sur_pc = "points" /\ NoFeasiblePoint(polygon, <<>>)) =>
           generate_next_pole(polygon, <<>>) = None
    /\ (sur_pc = "loop" /\ NoFeasiblePoint(polygon, all_poles)) =>
           generate_next_pole(polygon, all_poles) = None
    /\ (sur_pc = "panicked") =>
           \/ poi = None /\ all_poles = <<>>
           \/ generate_next_pole(polygon, all_poles) = None
    /\ poi # None => poi[1].radius > 0
    /\ \A k \in DOMAIN all_poles : all_poles[k].radius > 0
    /\ \A k \in DOMAIN sorted_poles : sorted_poles[k].radius > 0

\* the generation of an additional pole has failed on a polygon whose
\* poles leave no interior point
C22_Witness ==
    /\ sur_pc = "panicked"
    /\ all_poles # <<>>
    /\ SimplePolygon_area(polygon) > 0
    /\ NoFeasiblePoint(polygon, all_poles)

\* the two circles have no interior point in common
DisjointInteriors(c, d) == Point_distance(c.center, d.center) >= c.radius + d.radius

\* the circle lies inside the polygon
InsidePolygon(poly, c) ==
    /\ SimplePolygon_collides_with(poly, c.center)
    /\ \A e \in edge_iter(poly) : c.radius <= Edge_distance(e, c.center)

\* C23: every pole of the surrogate, the PoI and each additional pole,
\* lies inside the polygon, its radius being at most the distance of its
\* centre to the nearest edge and to the border of every pole generated
\* before it, and every two poles have disjoint interiors
C23_PolesInsideAndDisjoint ==
    /\ poi # None => InsidePolygon(polygon, poi[1])
    /\ \A k \in DOMAIN all_poles :
           /\ InsidePolygon(polygon, all_poles[k])
           /\ \A j \in 1..(k - 1) :
                  /\ ~Circle_collides_with(all_poles[j], all_poles[k].center)
                  /\ all_poles[k].radius <=
                        Circle_distance_from_border(all_poles[j], all_poles[k].center)[2]
                  /\ DisjointInteriors(all_poles[j], all_poles[k])
    /\ sur_pc = "sorted" =>
           /\ Len(sorted_poles) = Len(all_poles) - 1
           /\ \A k \in DOMAIN sorted_poles :
                  \E j \in 2..Len(all_poles) : sorted_poles[k] = all_poles[j]
           /\ \A j \in 2..Len(all_poles) :
                  \E k \in DOMAIN sorted_poles : sorted_poles[k] = all_poles[j]

\* a surrogate with the PoI and three additional poles has been generated
C23_Witness ==
    /\ sur_pc = "sorted"
    /\ Len(sorted_poles) = 3
    /\ sorted_poles # Tail(all_poles)

SupportedJsonItem(json_item) == json_item.shape \in {"Rectangle", "SimplePolygon"}
SupportedJsonBin(json_bin) ==
    /\ json_bin.shape \in {"Rectangle", "SimplePolygon", "Polygon"}
    /\ \A k \in DOMAIN json_bin.zones :
          /\ json_bin.zones[k].quality < N_QUALITIES
          /\ json_bin.zones[k].shape \in {"Rectangle", "SimplePolygon"}
SupportedJsonItems(ji) == \A k \in DOMAIN ji.items : SupportedJsonItem(ji.items[k])

\* C25: parsing an instance with both bins and strip, or with neither, panics
\* and yields no Instance; with exactly one of them, and items and bins that
\* parse, it yields a bin-packing respectively a strip-packing instance of
\* all the items.
C25_ExactlyOneOfBinsAndStrip ==
    instance # None =>
        LET ji == json_instance
            out == instance[1]
        IN  /\ (ji.bins # None /\ ji.strip # None) =>
                  /\ out.kind = "Panic"
                  /\ SupportedJsonItems(ji) =>
                        out.message = "Both bins and strip packing specified, has to be one or the other"
            /\ (ji.bins = None /\ ji.strip = None) =>
                  /\ out.kind = "Panic"
                  /\ SupportedJsonItems(ji) => out.message = "Neither bins or strips specified"
            /\ (/\ ji.bins # None
                /\ ji.strip = None
                /\ SupportedJsonItems(ji)
                /\ \A k \in DOMAIN ji.bins[1] : SupportedJsonBin(ji.bins[1][k])) =>
                  /\ out.kind = "BP"
                  /\ Len(out.items) = Len(ji.items)
                  /\ Len(out.bins) = Len(ji.bins[1])
            /\ (ji.bins = None /\ ji.strip # None /\ SupportedJsonItems(ji)) =>
                  /\ out.kind = "SP"
                  /\ Len(out.items) = Len(ji.items)
                  /\ out.strip_height = ji.strip[1].height

\* both bins and a strip, every item supported: the parser has panicked
C25_Witness ==
    /\ instance # None
    /\ json_instance.bins # None
    /\ json_instance.strip # None
    /\ SupportedJsonItems(json_instance)
    /\ \A k \in DOMAIN json_instance.bins[1] : SupportedJsonBin(json_instance.bins[1][k])
    /\ instance[1].kind = "Panic"

\* C26: a zone quality of N_QUALITIES or more, and a base_quality that makes
\* hazard_proximity look beyond qz_prox, make the parser panic, so that for
\* the items of a parsed instance hazard_proximity reads qz_prox only at
\* indices below N_QUALITIES.
C26_QualityOutOfRangeRejected ==
    /\ instance # None =>
          LET ji == json_instance
          IN  (\/ \E k \in DOMAIN ji.items :
                     /\ ji.items[k].base_quality # None
                     /\ ji.items[k].base_quality[1] > N_QUALITIES
               \/ /\ ji.bins # None
                  /\ \E b \in DOMAIN ji.bins[1] : \E k \in DOMAIN ji.bins[1][b].zones :
                        ji.bins[1][b].zones[k].quality >= N_QUALITIES)
                  => instance[1].kind = "Panic"
    /\ item_haz_prox # None => item_haz_prox[1].read \subseteq 0..(N_QUALITIES - 1)

\* C27: for every item pretransform, bin pretransform and internal placement
\* T, absolute_to_internal_transform applied to the decomposition of
\* internal_to_absolute_transform(T) is the transformation T; decomposed again
\* it is T itself when the angle of T lies in the range of atan2.
C27_TransformRoundTrip ==
    transform # None =>
        /\ transform[1] = Transformation_from_dt(d_transf)
        /\ d_transf.rotation \in (0 - 1)..2 =>
              Transformation_decompose(transform[1]) = d_transf

\* a rotated placement, both pretransforms rotating and translating, an
\* absolute transformation that differs from the placement
C27_Witness ==
    /\ transform # None
    /\ d_transf.rotation = 1
    /\ d_transf.translation = <<MaxTranslation, 0 - MaxTranslation>>
    /\ Transformation_decompose(pretransf_item) = DTransformation_new(1, <<1, 0>>)
    /\ Transformation_decompose(pretransf_bin) = DTransformation_new(2, <<0, 1>>)
    /\ json_transf[1] # d_transf

\* the placement set of a solution: per layout the container and the placed
\* items with their transformations
PlacementSet(solution) ==
    [k \in DOMAIN solution.layout_snapshots |->
        [bin |-> solution.layout_snapshots[k].bin,
         placed_items |-> solution.layout_snapshots[k].placed_items]]

\* C28: the solution built from the layouts compose_json_solution emits for a
\* solution S has the placement set of S: as many layouts, the same container
\* per layout and per layout the same items with the same transformations;
\* the rebuild of such layouts does not panic.
C28_JsonRoundTrip ==
    composed # None =>
        /\ build.pc # "panicked"
        /\ build.pc = "built" =>
              /\ Len(solutions) = 1
              /\ PlacementSet(solutions[1]) = PlacementSet(composed[1])

\* a solution with two placed items has been exported and rebuilt
C28_Witness ==
    /\ composed # None
    /\ build.pc = "built"
    /\ \E k \in DOMAIN composed[1].layout_snapshots :
          Cardinality(composed[1].layout_snapshots[k].placed_items) = 2

\* the pole-based proximity of a hazard to a cell: the smallest distance
\* from the centroid to the border of a pole, 0 inside a pole
PoleProximity(cell, poles) ==
    SetMin({IF poles[k][1] <= cell.centroid /\ cell.centroid <= poles[k][2]
            THEN 0
            ELSE Min2(Abs(cell.centroid - poles[k][1]), Abs(cell.centroid - poles[k][2])) :
            k \in DOMAIN poles})

\* the supported hazards that can still be handed to the cells
Registrable == {h \in Hazards \ registered : Supported(h)}

\* C29: register_hazard(h) on a cell with current distance d and pole-based
\* proximity p of h sets uni_prox to (p, h.entity) and returns Affected when
\* p < d; when p >= d it leaves the cell as it is (at p = d the earlier
\* entity stays) and returns NeighborsNotAffected if p > d + 2 * radius and
\* NotAffected otherwise.
C29_RegisterHazardOutcome ==
    \A c \in DOMAIN cells : \A h \in Registrable :
        LET cell == cells[c]
            d == cell.uni_prox[1]
            p == PoleProximity(cell, h.poles)
            out == register_hazard(cell, h)
        IN  /\ p < d =>
                  /\ out.update = "Affected"
                  /\ out.cell = [cell EXCEPT !.uni_prox = <<p, h.entity>>]
            /\ p >= d =>
                  /\ out.cell = cell
                  /\ out.update = IF p > d + 2 * cell.radius
                                  THEN "NeighborsNotAffected" ELSE "NotAffected"
            /\ p = d => out.cell.uni_prox[2] = cell.uni_prox[2]

\* register_hazard has just acted: one cell took the hazard over, another
\* one, at the same distance from it as from its closest hazard, kept the
\* earlier entity; a further hazard would leave a cell and its neighbours alone
C29_Witness ==
    /\ hpg_result.op = "register_hazard"
    /\ \E c \in DOMAIN cells : hpg_result.updates[c] = "Affected"
    /\ \E c \in DOMAIN cells : \E h \in registered :
          /\ hpg_result.updates[c] = "NotAffected"
          /\ PoleProximity(cells[c], h.poles) = cells[c].uni_prox[1]
          /\ cells[c].uni_prox[2] # h.entity
    /\ \E c \in DOMAIN cells : \E h \in Registrable :
          register_hazard(cells[c], h).update = "NeighborsNotAffected"

\* a hazard of the single pole k of h
SinglePoleHazard(h, k) == [h EXCEPT !.poles = <<h.poles[k]>>]

\* C30: register_hazard_pole(h, pole) leaves the cell that register_hazard
\* leaves for a hazard of that single pole and is Affected in the same cases;
\* it returns NeighborsNotAffected exactly when the cell is not affected and
\* new_prox - 2r > current_prox + 2r, and then register_hazard returns
\* NeighborsNotAffected for the hazard of that pole as well.
C30_RegisterHazardPoleTighterBound ==
    \A c \in DOMAIN cells : \A h \in Registrable : \A k \in DOMAIN h.poles :
        LET cell == cells[c]
            current_prox == cell.uni_prox[1]
            new_prox == PoleProximity(cell, <<h.poles[k]>>)
            by_pole == register_hazard_pole(cell, h, h.poles[k])
            by_hazard == register_hazard(cell, SinglePoleHazard(h, k))
        IN  /\ by_pole.cell = by_hazard.cell
            /\ (by_pole.update = "Affected") = (by_hazard.update = "Affected")
            /\ (by_pole.update = "NeighborsNotAffected") =
                  (/\ new_prox >= current_prox
                   /\ new_prox - 2 * cell.radius > current_prox + 2 * cell.radius)
            /\ by_pole.update = "NeighborsNotAffected" =>
                  by_hazard.update = "NeighborsNotAffected"

\* register_hazard_pole has just reported NeighborsNotAffected for a cell,
\* and for another pole the two bounds tell the operations apart
C30_Witness ==
    /\ hpg_result.op = "register_hazard_pole"
    /\ pole_registered
    /\ \E c \in DOMAIN cells : hpg_result.updates[c] = "NeighborsNotAffected"
    /\ \E c \in DOMAIN cells : \E h \in Registrable : \E k \in DOMAIN h.poles :
          /\ register_hazard_pole(cells[c], h, h.poles[k]).update = "NotAffected"
          /\ register_hazard(cells[c], SinglePoleHazard(h, k)).update = "NeighborsNotAffected"

\* the cell with the uni_prox of another cell
WithUniProxOf(cell, other) == [cell EXCEPT !.uni_prox = other.uni_prox]

\* C31: static_uni_prox, qz_prox, bbox, centroid and radius of a cell are
\* those of its construction in every reachable state, and register_hazard,
\* register_hazard_pole, register_hazards and deregister_hazards, whatever
\* hazard they are handed, leave a cell that differs in uni_prox at most.
C31_OnlyUniProxChanges ==
    \A c \in DOMAIN cells :
        LET cell == cells[c]
        IN  /\ cell = WithUniProxOf(HPGCell_new(CellBBox(c), static_hazards), cell)
            /\ \A h \in Hazards :
                  /\ cell = WithUniProxOf(register_hazard(cell, h).cell, cell)
                  /\ \A k \in DOMAIN h.poles :
                        cell = WithUniProxOf(register_hazard_pole(cell, h, h.poles[k]).cell, cell)
                  /\ cell = WithUniProxOf(register_hazards(cell, <<h>>).cell, cell)
            /\ \A D \in SUBSET registered :
                  cell = WithUniProxOf(
                             deregister_hazards(cell, {h.entity : h \in D},
                                                HazardSeq(registered \ D)).cell, cell)

\* registrations by hazard and by pole and a deregistration have acted, and
\* a cell is away from its static proximity
C31_Witness ==
    /\ pole_registered
    /\ hpg_result.op = "deregister_hazards"
    /\ \E c \in DOMAIN cells :
          /\ hpg_result.updates[c] = "Affected"
          /\ cells[c].uni_prox # cells[c].static_uni_prox
          /\ cells[c].static_uni_prox =
                 HPGCell_new(CellBBox(c), static_hazards).static_uni_prox

\* the static proximity of a hazard to a point: 0 where the point lies in
\* the position the hazard forbids, else the distance to the border
StaticProx(hazard, p) ==
    LET inside == hazard.shape[1] <= p /\ p <= hazard.shape[2]
        forbidden == IF hazard.entity.kind = "BinExterior" THEN ~inside ELSE inside
    IN  IF forbidden THEN 0
        ELSE Min2(Abs(p - hazard.shape[1]), Abs(p - hazard.shape[2]))

\* slices of static hazards beyond those the grids are built with: a zone and
\* a hole around a centroid, a hole as near as the exterior, no hazard at all
StaticSlices ==
    StaticConfigs \cup
    { <<>>,
      <<Hazard(InferiorQualityZone(4, 3), <<5, 7>>, <<<<5, 7>>>>, TRUE),
        Hazard(BinExterior, BinShape, <<BinShape>>, TRUE),
        Hazard(InferiorQualityZone(4, 4), <<0, 1>>, <<<<0, 1>>>>, TRUE)>>,
      <<Hazard(BinHole(1), <<9, 11>>, <<<<9, 11>>>>, TRUE),
        Hazard(BinExterior, BinShape, <<BinShape>>, TRUE),
        Hazard(BinHole(2), <<4, 4>>, <<<<4, 4>>>>, TRUE)>> }

\* the slice with one more hazard at position k
InsertAt(slice, k, hazard) ==
    SubSeq(slice, 1, k - 1) \o <<hazard>> \o SubSeq(slice, k, Len(slice))

\* C32: a cell built by HPGCell::new has uni_prox = static_uni_prox, the
\* nearest of the bin-exterior and bin-hole hazards (the first of the slice
\* among equally near ones), with proximity 0 where the centroid lies in the
\* position the hazard forbids and the border distance otherwise; qz_prox[q]
\* is the smallest such proximity over the zones of quality q; a slice with
\* a placed-item hazard makes the construction panic.
C32_NewCell ==
    \A c \in DOMAIN cells : \A slice \in StaticSlices \cup {static_hazards} :
        LET cell == HPGCell_new(CellBBox(c), slice)
            centroid == (CellBBox(c)[1] + CellBBox(c)[2]) \div 2
            universal == {k \in DOMAIN slice :
                              slice[k].entity.kind \in {"BinExterior", "BinHole"}}
            zones(q) == {k \in DOMAIN slice :
                              /\ slice[k].entity.kind = "InferiorQualityZone"
                              /\ slice[k].entity.quality = q}
            nearest == SetMin({F64_MAX} \cup {StaticProx(slice[k], centroid) : k \in universal})
        IN  /\ cell.uni_prox = cell.static_uni_prox
            /\ cell.static_uni_prox[1] = nearest
            /\ IF nearest = F64_MAX
               THEN cell.static_uni_prox[2] = BinExterior
               ELSE \E k \in universal :
                       /\ cell.static_uni_prox[2] = slice[k].entity
                       /\ StaticProx(slice[k], centroid) = nearest
                       /\ \A j \in universal : j < k => StaticProx(slice[j], centroid) > nearest
            /\ \A q \in 0..(N_QUALITIES - 1) :
                  cell.qz_prox[q] =
                      SetMin({F64_MAX} \cup {StaticProx(slice[k], centroid) : k \in zones(q)})
            /\ slice = static_hazards => (registered = {} => cells[c] = cell)
            /\ \A h \in Hazards : \A k \in 1..(Len(slice) + 1) :
                  h.entity.kind = "PlacedItem" =>
                      HPGCell_new(CellBBox(c), InsertAt(slice, k, h)).kind = "Panic"

\* the cells have just been built: one is nearest to a hole, one has the
\* smaller of the proximities of two zones of a quality
C32_Witness ==
    /\ hpg_result.op = "new"
    /\ \E c \in DOMAIN cells :
          /\ cells[c].static_uni_prox[2].kind = "BinHole"
          /\ cells[c].uni_prox = cells[c].static_uni_prox
    /\ \E c \in DOMAIN cells :
          /\ cells[c].qz_prox[2] < F64_MAX
          /\ \E k \in DOMAIN static_hazards :
                /\ static_hazards[k].entity.kind = "InferiorQualityZone"
                /\ static_hazards[k].entity.quality = 2
                /\ StaticProx(static_hazards[k], cells[c].centroid) > cells[c].qz_prox[2]

\* what the registrations leave of the distance of uni_prox: never more
\* than the static distance, never more than before
RegistrationsLowerUniProx(cell) ==
    /\ cell.uni_prox[1] <= cell.static_uni_prox[1]
    /\ \A h \in Registrable :
          /\ register_hazard(cell, h).cell.uni_prox[1] <= cell.uni_prox[1]
          /\ \A k \in DOMAIN h.poles :
                register_hazard_pole(cell, h, h.poles[k]).cell.uni_prox[1]
                    <= cell.uni_prox[1]
    /\ \A H \in HazardSets :
          (H \cap registered = {} /\ \A h \in H : ~h.active \/ Supported(h)) =>
              register_hazards(cell, HazardSeq(H)).cell.uni_prox[1] <= cell.uni_prox[1]

\* what deregister_hazards leaves of the distance of uni_prox: never less
\* than before
DeregistrationRaisesUniProx(cell) ==
    \A D \in SUBSET registered :
        deregister_hazards(cell, {h.entity : h \in D},
                           HazardSeq(registered \ D)).cell.uni_prox[1]
            >= cell.uni_prox[1]

RECURSIVE pop_front_record(_, _, _, _, _, _)
pop_front_record(nodes, lo, hi, acc, poly, poles) ==
    IF lo = hi
    THEN LET next == pop_front(nodes[lo], acc.state, poly, poles)
         IN  [state |-> next,
              record |-> Append(acc.record,
                                [node |-> nodes[lo],
                                 before |-> acc.state.best, after |-> next.best,
                                 back_before |-> Len(acc.state.back),
                                 back_after |-> Len(next.back)])]
    ELSE LET mid == (lo + hi) \div 2
             left == pop_front_record(nodes, lo, mid, acc, poly, poles)
         IN  IF Len(left.record) >= 0
             THEN pop_front_record(nodes, mid + 1, hi, left, poly, poles)
             ELSE left

\* the rounds of the loop: the nodes that are in the queue when the round
\* starts, the record of their iterations and the nodes pushed meanwhile
RECURSIVE generate_next_pole_rounds(_, _, _, _)
generate_next_pole_rounds(nodes, best_so_far, poly, poles) ==
    IF nodes = <<>> THEN <<>>
    ELSE LET round == pop_front_record(nodes, 1, Len(nodes),
                                       [state |-> [best |-> best_so_far, back |-> <<>>],
                                        record |-> <<>>], poly, poles)
         IN  <<[queue |-> nodes, record |-> round.record, back |-> round.state.back,
                best |-> round.state.best]>>
             \o generate_next_pole_rounds(round.state.back, round.state.best, poly, poles)

\* the rounds of generate_next_pole(poly, poles)
Rounds(poly, poles) ==
    LET square_bbox == AARectangle_inflate_to_square(SimplePolygon_bbox(poly))
        root == POINode_new_at(square_bbox, MAX_POI_TREE_DEPTH, poly, poles)
    IN  generate_next_pole_rounds(<<root>>, None, poly, poles)

\* the largest distance of the nodes dequeued in the rounds
MaxDequeuedDistance(rounds) ==
    -SetMin(UNION {{-rounds[r].queue[k].distance : k \in DOMAIN rounds[r].queue} :
                      r \in DOMAIN rounds})

\* the first node dequeued whose distance is d
FirstDequeuedAt(rounds, d) ==
    LET r == CHOOSE r \in DOMAIN rounds :
                 /\ \E k \in DOMAIN rounds[r].queue : rounds[r].queue[k].distance = d
                 /\ \A s \in 1..(r - 1) :
                        \A k \in DOMAIN rounds[s].queue : rounds[s].queue[k].distance # d
        k == CHOOSE k \in DOMAIN rounds[r].queue :
                 /\ rounds[r].queue[k].distance = d
                 /\ \A j \in 1..(k - 1) : rounds[r].queue[j].distance # d
    IN  rounds[r].queue[k]

\* what C33 says of the call generate_next_pole(poly, poles)
GenerateNextPoleAsClaimed(poly, poles) ==
    LET rounds == Rounds(poly, poles)
        pole == generate_next_pole(poly, poles)
    IN  /\ \A r \in DOMAIN rounds :
               \* the nodes leave the queue in the order they entered it
               /\ IF r = 1
                  THEN /\ Len(rounds[r].queue) = 1
                       /\ rounds[r].queue[1].level = MAX_POI_TREE_DEPTH
                  ELSE rounds[r].queue = rounds[r - 1].back
               /\ Len(rounds[r].record) = Len(rounds[r].queue)
               /\ \A k \in DOMAIN rounds[r].record :
                      LET it == rounds[r].record[k]
                          pushed == SubSeq(rounds[r].back, it.back_before + 1, it.back_after)
                      IN  /\ it.node = rounds[r].queue[k]
                          /\ it.before = IF k = 1
                                         THEN IF r = 1 THEN None ELSE rounds[r - 1].best
                                         ELSE rounds[r].record[k - 1].after
                          /\ it.back_before = IF k = 1 THEN 0
                                              ELSE rounds[r].record[k - 1].back_after
                          \* best is replaced only by a strictly farther node
                          /\ IF it.node.distance > best_distance(it.before)
                             THEN it.after = Some(Circle_new(AARectangle_centroid(it.node.bbox),
                                                             it.node.distance))
                             ELSE it.after = it.before
                          \* a node is split only above the best radius
                          /\ IF distance_upperbound(it.node) > best_distance(it.after)
                                /\ it.node.level > 0
                             THEN /\ Len(pushed) = 4
                                  /\ \A qd \in Quadrants :
                                         /\ pushed[qd].level = it.node.level - 1
                                         /\ pushed[qd].bbox =
                                                AARectangle_quadrants(it.node.bbox)[qd]
                             ELSE pushed = <<>>
        /\ rounds # <<>>
        /\ rounds[Len(rounds)].back = <<>>
        /\ pole = rounds[Len(rounds)].best
        /\ pole # None =>
               /\ pole[1].radius = MaxDequeuedDistance(rounds)
               /\ pole[1].center =
                      AARectangle_centroid(FirstDequeuedAt(rounds, pole[1].radius).bbox)
        /\ pole = None => MaxDequeuedDistance(rounds) <= 0

\* C33: in generate_next_pole the nodes are processed in FIFO order, best
\* is replaced only by a node whose distance is strictly greater than the
\* best radius, a node is split only when its distance_upperbound is
\* strictly greater than the best radius, and the circle returned has the
\* largest distance of all nodes dequeued for its radius and the centroid
\* of the first dequeued node at that distance for its centre
C33_FifoStrictBest ==
    /\ sur_pc = "points" => GenerateNextPoleAsClaimed(polygon, <<>>)
    /\ sur_pc = "loop" => GenerateNextPoleAsClaimed(polygon, all_poles)

\* a pole is generated next to the poles before it; in the search a node
\* as far from the border as the best so far was dequeued and left aside,
\* and a node whose upper bound equals the best radius was not split
C33_Witness ==
    /\ sur_pc = "loop"
    /\ Len(all_poles) >= 2
    /\ LET rounds == Rounds(polygon, all_poles)
       IN  /\ Len(rounds) >= 3
           /\ \E r \in DOMAIN rounds : \E k \in DOMAIN rounds[r].record :
                  LET it == rounds[r].record[k]
                  IN  /\ it.before # None
                      /\ it.node.distance = it.before[1].radius
                      /\ it.after = it.before
           /\ \E r \in DOMAIN rounds : \E k \in DOMAIN rounds[r].record :
                  LET it == rounds[r].record[k]
                  IN  /\ it.after # None
                      /\ it.node.level > 0
                      /\ distance_upperbound(it.node) = it.after[1].radius
                      /\ it.back_after = it.back_before

\* radius^2 x the distance of the pole's centre to the nearest border of
\* the poles in prior
PickObjective(p, prior) ==
    p.radius * p.radius *
    SetMin({Circle_distance_from_border(prior[k], p.center)[2] : k \in DOMAIN prior})

\* the bijections between the positions of two sequences of poles that
\* map equal poles onto each other
PolePermutations(ps, qs) ==
    {f \in [DOMAIN ps -> DOMAIN qs] :
        /\ \A i, j \in DOMAIN ps : i # j => f[i] # f[j]
        /\ \A j \in DOMAIN qs : \E i \in DOMAIN ps : f[i] = j
        /\ \A i \in DOMAIN ps : ps[i] = qs[f[i]]}

\* C34: the reordering step of generate_additional_surrogate_poles returns
\* a permutation of the additional poles generated, none lost, none twice,
\* the PoI not among them, in which every pole, when it is picked, has the
\* largest radius^2 x (minimum distance to the poles picked before it and
\* the PoI) of the poles not yet picked
C34_SortIsGreedyPermutation ==
    sur_pc = "sorted" =>
        /\ PolePermutations(sorted_poles, Tail(all_poles)) # {}
        /\ \A k \in DOMAIN sorted_poles : sorted_poles[k] # poi[1]
        /\ \A k \in DOMAIN sorted_poles :
               LET prior == SubSeq(sorted_poles, 1, k - 1) \o <<poi[1]>>
               IN  \A j \in k..Len(sorted_poles) :
                       PickObjective(sorted_poles[j], prior) <=
                           PickObjective(sorted_poles[k], prior)

\* the sort has moved a pole generated later before one generated
\* earlier, the first pole picked having a strictly larger objective than
\* another one
C34_Witness ==
    /\ sur_pc = "sorted"
    /\ Len(sorted_poles) >= 2
    /\ sorted_poles[1] # all_poles[2]
    /\ \E j \in 2..Len(sorted_poles) :
           PickObjective(sorted_poles[j], <<poi[1]>>) <
               PickObjective(sorted_poles[1], <<poi[1]>>)

\* C35: min_usage_layout_index returns None exactly when the problem has
\* no active layout, and otherwise the index of an active layout whose
\* usage is at most the usage of every other active layout; the layout it
\* names is never one of the empty template layouts
C35_MinUsageLayoutIndex ==
    LET index == min_usage_layout_index
    IN  /\ index = None <=> Len(layouts) = 0
        /\ index # None =>
               /\ index[1] \in 0..(Len(layouts) - 1)
               /\ \A j \in 1..Len(layouts) :
                      LET u == Layout_usage(get_layout(Existing(index[1])))
                          v == Layout_usage(layouts[j])
                      IN  u[1] * v[2] <= v[1] * u[2]
               /\ \A b \in EmptyIndices :
                      get_layout(Existing(index[1])) # get_layout(Empty(b))

\* two layouts are open and the one opened last has the smaller usage
C35_Witness ==
    /\ Len(layouts) = 2
    /\ min_usage_layout_index = Some(1)
    /\ Layout_usage(layouts[1]) # Layout_usage(layouts[2])

\* the number of active layouts of ls that use bin b
LayoutsUsing(ls, b) == Cardinality({k \in DOMAIN ls : ls[k].bin.id = b})

\* stock and active layouts add up to the initial stock of every bin
StockConserved(ls, qtys) ==
    \A b \in BinIds : qtys[b] + LayoutsUsing(ls, b) = BinStock(b)

\* C36: bin stock is conserved in bin packing: in every reachable state
\* the remaining stock of every bin plus the number of active layouts that
\* use it equals the bin's initial stock; opening a layout from an empty
\* template takes one from the stock and emptying a layout gives it back
C36_BinStockConserved ==
    ptype = "BP" =>
        /\ StockConserved(layouts, bin_qtys)
        /\ \A opt \in StepOptions :
               LET out == PlaceOutcome(opt)
                   opened == opt.layout_index[1] = "Empty" /\ out.result.kind = "Placed"
               IN  /\ StockConserved(out.layouts, out.bin_qtys)
                   /\ \A b \in BinIds :
                          out.bin_qtys[b] =
                              IF opened /\ b = get_layout(opt.layout_index).bin.id
                              THEN bin_qtys[b] - 1 ELSE bin_qtys[b]
        /\ \A i \in ExistingIndices : \A uid \in layouts[i + 1].placed_items :
               LET out == RemoveOutcome(i, uid)
                   emptied == layouts[i + 1].placed_items = {uid}
               IN  /\ StockConserved(out.layouts, out.bin_qtys)
                   /\ \A b \in BinIds :
                          out.bin_qtys[b] =
                              IF emptied /\ b = layouts[i + 1].bin.id
                              THEN bin_qtys[b] + 1 ELSE bin_qtys[b]
        /\ \A k \in DOMAIN solutions :
               LET out == RestoreOutcome(solutions[k])
               IN  StockConserved(out.layouts, out.bin_qtys)

\* two bins were opened and one of them has been emptied again
C36_Witness ==
    /\ ptype = "BP"
    /\ result = Done("Removed")
    /\ Len(layouts) = 1
    /\ bin_qtys[layouts[1].bin.id] = 0
    /\ \E b \in BinIds : b # layouts[1].bin.id /\ bin_qtys[b] = BinStock(b)

\* remove_item of the item the last place_item has placed: the state it
\* leaves
RemoveLastPlaced == RemoveOutcome(result.layout_index[2], result.uid)

\* the placed items of every layout, in the order of the layouts
PlacedItemsPerLayout(ls) ==
    [k \in DOMAIN ls |-> [bin |-> ls[k].bin, placed_items |-> ls[k].placed_items]]

\* C37: place_item followed by remove_item of the item just placed is a
\* round trip: the problem is back in the state before the placement in
\* the placed items per layout, the missing quantities, the remaining bin
\* stock and the number of active and of empty layouts
C37_PlaceRemoveRoundTrip ==
    [][(/\ result'.kind = "Placed"
        /\ missing_item_qtys' # missing_item_qtys)
       => LET before == empty_layouts
              out == RemoveLastPlaced'
          IN  /\ PlacedItemsPerLayout(out.layouts) = PlacedItemsPerLayout(layouts)
              /\ out.missing = missing_item_qtys
              /\ out.bin_qtys = bin_qtys
              /\ Len(out.layouts) = Len(layouts)
              /\ empty_layouts' = before]_vars

\* the placement has opened a second bin, which the removal of the item
\* closes again
C37_Witness ==
    /\ ptype = "BP"
    /\ build.pc = "api"
    /\ result.kind = "Placed"
    /\ result.layout_index = Existing(1)
    /\ Len(layouts) = 2
    /\ layouts[2].placed_items = {result.uid}
    /\ Len(RemoveLastPlaced.layouts) = 1
    /\ RemoveLastPlaced.bin_qtys[layouts[2].bin.id] = BinStock(layouts[2].bin.id)

\* the handler of request r has panicked
Panicking(r) ==
    /\ requests[r].pc = "done"
    /\ requests[r].response[1].kind = "Panic"

\* C39: in the GUI backend, under any interleaving of POST /json and GET
\* /solution requests, no handler panics while it holds the SvgFiles
\* mutex: a GET /solution handled while the list is still empty completes,
\* and the mutex is never left poisoned, so that later requests can lock it
C39_NoPanicUnderLock ==
    /\ ~svg_state.poisoned
    /\ \A r \in Requests :
           /\ (requests[r].kind = "sol" /\ requests[r].pc = "done") =>
                  requests[r].response = Some(Unit)
           /\ Panicking(r) => requests[r].response[1] # Panic("State lock poisoned")

\* the json handler has passed the test of the solver result
PastResultTest(request) == request.pc \in {"json_36", "json_37", "json_39"}

\* C40: in the GUI backend POST /json replaces the shared SvgFiles list
\* only when the solver has returned a non-empty list of files: for an
\* empty json_str the solver is not invoked, and for an empty json_str or
\* an empty solver result the shared list is left unchanged and an error
\* flash is returned
C40_ReplacedOnlyByFiles ==
    /\ [](\A r \in Requests :
              requests[r].kind = "json" =>
                  /\ requests[r].json_str = "" =>
                         /\ requests[r].pc \in {"json_28", "done"}
                         /\ requests[r].svg_files = None
                         /\ requests[r].pc = "done" =>
                                /\ requests[r].response[1].kind = "Flash"
                                /\ requests[r].response[1].name = "error"
                  /\ requests[r].svg_files = Some(<<>>) =>
                         /\ requests[r].pc \in {"json_33", "done"}
                         /\ requests[r].pc = "done" =>
                                /\ requests[r].response[1].kind = "Flash"
                                /\ requests[r].response[1].name = "error"
                  /\ svg_state.holder = r =>
                         /\ requests[r].json_str # ""
                         /\ requests[r].svg_files # None
                         /\ requests[r].svg_files[1] # <<>>)
    /\ [][svg_state'.files # svg_state.files =>
              \E r \in Requests :
                  /\ requests[r].kind = "json"
                  /\ requests[r].json_str # ""
                  /\ requests[r].svg_files # None
                  /\ requests[r].svg_files[1] # <<>>
                  /\ svg_state'.files = requests[r].svg_files[1]]_vars

\* the list holds the files of an earlier POST /json; since then a POST
\* with an empty json_str and a POST whose solver found nothing have been
\* answered
C40_Witness ==
    /\ svg_state.files # <<>>
    /\ svg_state.holder = 0
    /\ \E r, q \in Requests :
           /\ requests[r] = Answered(Request("json", "json_28", ""),
                                     Flash_error("/", "JSON cannot be empty."))
           /\ requests[q].pc = "done"
           /\ requests[q].json_str = "instance"
           /\ requests[q].svg_files = Some(<<>>)
           /\ requests[q].response = Some(Flash_error("/", "No solution found."))

====
